---- MODULE Spec2Model ----
(***************************************************************************)
(* Audio Echo Chamber (src/App.tsx): the App component's state, its refs,  *)
(* the live monitoring graph, the playback sources, the offline renders    *)
(* and the history list, as a state machine.                               *)
(*                                                                         *)
(* Units.  Slider values are integers counted in slider steps:             *)
(*   delayTime, feedback : hundredths (0.01)                               *)
(*   voiceBoost          : tenths (0.1)                                    *)
(*   clarity             : halves of a dB (0.5)                            *)
(* Filter Q is in tenths, frequencies are in Hz.                           *)
(*                                                                         *)
(* Nullable object values (buffers, nodes) use the record Null; nullable   *)
(* handles (sources, recorders, timers, the context) use the id 0.         *)
(***************************************************************************)
EXTENDS Integers, Sequences, FiniteSets, TLC

(* ----------------------------- bounds ---------------------------------- *)
\* Scenario sizes: how many calls of each kind the environment makes.
\* Playback scenario
PlaybackLoads == 1
PlaybackExports == 1
PlaybackPreviews == 1
PlaybackSources == 3
\* History scenario: enough exports to pass the cap of 10
HistoryLoads == 1
HistoryExports == 11
HistoryFailures == 1
\* Live-graph scenario
GraphLoads == 1
GraphSources == 1
\* Offline scenario
OfflineLoads == 1
OfflineExports == 1
\* Session scenario
SessionLoads == 2
SessionRecordings == 1
\* Archive scenario
ArchiveLoads == 2
ArchiveExports == 2
ArchiveSources == 1
\* Clock scenario
ClockLoads == 1
ClockExports == 3
ClockTicks == 3
\* Recording scenario
RecordingLoads == 1
RecordingAttempts == 2
\* Encoder scenario
WavMaxChannels == 2
WavMaxFrames == 3
\* Indicator scenario
IndicatorSources == 3
\* Topology scenario
TopologyExports == 1
TopologySources == 2
\* Chunk scenario
Mp3MaxChannels == 2
Mp3MaxChunks == 2
\* Sample scenario
PcmMaxChannels == 2
PcmMaxFrames == 2
\* Preview scenario
PreviewLoads == 1
PreviewRenders == 2
\* Render scenario
RenderExports == 1
RenderPreviews == 2
RenderSources == 1
\* Export scenario
ExportLoads == 2
ExportRuns == 2
ExportFailures == 2
\* Whole-program scenario
MaxLoads == 1
MaxExports == 1
MaxFailures == 1
MaxPreviews == 1
MaxSources == 2
MaxRecordings == 1
MaxClock == 2

(* ------------------------ program constants ---------------------------- *)
HistoryCap == 10
DelayMin == 1
DelayMax == 100
FeedbackMin == 0
FeedbackMax == 95
BoostMin == 10
BoostMax == 30
ClarityMin == 0
ClarityMax == 24
DelayCapacity == 200
InitialDelayTime == 50
InitialFeedback == 50
InitialVoiceBoost == 10
InitialClarity == 0
LowpassFrequency == 5000
LowpassQ == 10
ClarityFrequency == 3500
ClarityQ == 15
\* BiquadFilterNode defaults of the host (frequency 350 Hz, Q 1), what
\* createBiquadFilter() returns before the code writes to the node.
BiquadDefaultFrequency == 350
BiquadDefaultQ == 10

Null == [null |-> TRUE]

VARIABLES
    \* React state of App
    audioBuffer, processedVisBuffer, fileName,
    isPlayingOriginal, isPlayingProcessed, playingHistoryId, playingPreview,
    renderingFormat, isRecording, history,
    delayTime, feedback, isClarityOn, voiceBoost, clarity,
    \* refs
    audioContextRef,
    originalSourceRef, processedSourceRef, historySourceRef,
    beforePreviewSourceRef, afterPreviewSourceRef,
    mediaRecorderRef, timerIntervalRef,
    delayNodeRef, feedbackGainNodeRef, noiseReductionFilterRef,
    dryGainRef, wetGainRef, masterProcessedGainRef,
    voiceBoostGainNodeRef, clarityFilterNodeRef,
    \* host audio engine and browser
    contexts,       \* number of AudioContexts constructed so far
    connections,    \* connect() edges of the live context: <<from, to>>
    sources,        \* AudioBufferSourceNodes created, by id
    decodes,        \* loadFile calls suspended in decodeAudioData
    exports,        \* handleDownload calls suspended in startRendering
    previews,       \* processForVis calls suspended in startRendering
    mediaRequests,  \* startRecording calls suspended in getUserMedia
    recorders,      \* MediaRecorders constructed, by id
    timers,         \* ids of the running setInterval timers
    now,            \* Date.now()
    loads, exportsStarted, exportsFailed, previewsStarted, recordingsStarted,
    loadsFailed,    \* number of loads that ended in the catch block of loadFile
    lastDownload,   \* the download last offered through a temporary <a> element
    \* the encoders, applied on their own: the buffer given and the file made
    codecInput, channelData, codecOutput, mp3Output,
    \* React scheduler: effects whose dependencies changed and have not run
    pendingEffects,
    \* the environment's scenario (never changes)
    limits

playbackState == <<isPlayingOriginal, isPlayingProcessed, playingHistoryId, playingPreview>>
params == <<delayTime, feedback, isClarityOn, voiceBoost, clarity>>
sourceRefs == <<originalSourceRef, processedSourceRef, historySourceRef,
                beforePreviewSourceRef, afterPreviewSourceRef>>
transientNodeRefs == <<dryGainRef, wetGainRef>>
liveNodes == <<delayNodeRef, feedbackGainNodeRef, noiseReductionFilterRef,
               masterProcessedGainRef, voiceBoostGainNodeRef, clarityFilterNodeRef>>
liveGraph == <<audioContextRef, contexts, liveNodes>>
recording == <<isRecording, mediaRecorderRef, timerIntervalRef, mediaRequests,
               recorders, timers, recordingsStarted>>
loading == <<decodes, loads, loadsFailed>>
exporting == <<renderingFormat, exports, exportsStarted, exportsFailed, lastDownload>>
previewing == <<processedVisBuffer, previews, previewsStarted>>
codec == <<codecInput, channelData, codecOutput, mp3Output>>

vars == <<audioBuffer, fileName, history, playbackState, params, sourceRefs,
          transientNodeRefs, liveGraph, connections, sources, recording, loading,
          exporting, previewing, now, pendingEffects, limits, codec>>

(* ------------------------------ helpers -------------------------------- *)
Min(a, b) == IF a < b THEN a ELSE b

\* Faulty variant of Slider: a control that also delivers the step beyond
\* each end of its range.
SliderBeyond(min, max) == (min - 1)..(max + 1)

\* <input type="range" min max step>: the values the control can deliver,
\* in units of its step.
Slider(min, max) == min..max

\* The lowest and the highest value of a set of slider positions.
Ends(positions) ==
    {v \in positions : (\A w \in positions : v <= w) \/ (\A u \in positions : u <= v)}

\* Array.prototype.slice(0, n)
Slice(s, n) == SubSeq(s, 1, Min(Len(s), n))

\* A file name, split at its first '.': the text is stem followed by rest,
\* and rest is empty or starts with that '.'.
Name(stem, rest) == [stem |-> stem, rest |-> rest]
NoName == Name("", "")
FailedName == Name("Failed to load", ". Format may not be supported.")
\* `recording-${new Date().toISOString()}.wav`
RecordingName == Name("recording-T", ".000Z.wav")
\* fileName.split('.')[0] || 'recording'
HistoryFileName(fn) == IF fn.stem = "" THEN "recording" ELSE fn.stem
\* `${item.fileName} (from history)`
FromHistoryName(itemName) == Name(itemName \o " (from history)", "")

\* The files the user can offer: one with a stem, one starting with a dot.
Files == {Name("song", ".wav"), Name("", ".hidden")}

\* The closure of one render of App, as far as setupAudioContext reads it.
Closure == [delayTime |-> delayTime, feedback |-> feedback,
            voiceBoost |-> voiceBoost, clarity |-> clarity]

\* Names of the persistent nodes of the live graph and of the transient ones.
Node(kind, id) == <<kind, id>>
Destination == Node("destination", 0)
MasterNode == Node("master", 0)
DelayNode == Node("delay", 0)
FeedbackNode == Node("feedback", 0)
NoiseNode == Node("noise", 0)
BoostNode == Node("boost", 0)
ClarityNode == Node("clarity", 0)
SourceNode(s) == Node("source", s)
DryNode(s) == Node("dry", s)
WetNode(s) == Node("wet", s)

(* --------------------------- value shapes ------------------------------ *)
\* An AudioBuffer: its identity is (origin, seq); input and fx say what it
\* was rendered from (Null and NoFx for a decoded file).
NoFx == [delayTime |-> 0, feedback |-> 0, voiceBoost |-> 0, clarity |-> 0,
         noise |-> "none"]

\* numberOfChannels, length (sample frames) and sampleRate of an AudioBuffer.
Shape(channels, frames, rate) ==
    [numberOfChannels |-> channels, length |-> frames, sampleRate |-> rate]

\* What decodeAudioData finds in each file: the song is stereo, the other
\* file and a recording are mono.
ShapeOf(file) ==
    IF file.stem = "song" THEN Shape(2, 3, 44100)
    ELSE IF file.stem = "" THEN Shape(1, 1, 48000)
    ELSE Shape(1, 2, 48000)

DecodedBuffer(n, file) ==
    [origin |-> "file", seq |-> n, file |-> file, input |-> Null, fx |-> NoFx,
     shape |-> ShapeOf(file)]

\* BiquadFilterNode of the noise-reduction stage
NoiseFilter(type, frequency, q) == [type |-> type, frequency |-> frequency, Q |-> q]
\* BiquadFilterNode of the clarity stage
PeakingFilter(gain) ==
    [type |-> "peaking", frequency |-> ClarityFrequency, Q |-> ClarityQ, gain |-> gain]
GainNode(gain) == [gain |-> gain]
DelayLine(capacity, t) == [maxDelayTime |-> capacity, delayTime |-> t]

(* ------------------------------- Init ---------------------------------- *)
\* The state after the first render of App and its mount effects: every
\* effect ran once with audioContextRef null and audioBuffer null, so none
\* of them wrote anything.
InitApp ==
    /\ audioBuffer = Null /\ processedVisBuffer = Null /\ fileName = NoName
    /\ isPlayingOriginal = FALSE /\ isPlayingProcessed = FALSE
    /\ playingHistoryId = 0 /\ playingPreview = "none"
    /\ renderingFormat = "none" /\ isRecording = FALSE /\ history = <<>>
    /\ delayTime = InitialDelayTime /\ feedback = InitialFeedback
    /\ isClarityOn = FALSE /\ voiceBoost = InitialVoiceBoost
    /\ clarity = InitialClarity
    /\ audioContextRef = 0
    /\ originalSourceRef = 0 /\ processedSourceRef = 0 /\ historySourceRef = 0
    /\ beforePreviewSourceRef = 0 /\ afterPreviewSourceRef = 0
    /\ mediaRecorderRef = 0 /\ timerIntervalRef = 0
    /\ delayNodeRef = Null /\ feedbackGainNodeRef = Null
    /\ noiseReductionFilterRef = Null
    /\ dryGainRef = 0 /\ wetGainRef = 0 /\ masterProcessedGainRef = Null
    /\ voiceBoostGainNodeRef = Null /\ clarityFilterNodeRef = Null
    /\ contexts = 0 /\ connections = {} /\ sources = <<>>
    /\ decodes = {} /\ exports = {} /\ previews = {}
    /\ mediaRequests = {} /\ recorders = <<>> /\ timers = {}
    /\ now = 1
    /\ loads = 0 /\ exportsStarted = 0 /\ exportsFailed = 0
    /\ previewsStarted = 0
    /\ recordingsStarted = 0
    /\ loadsFailed = 0
    /\ lastDownload = Null
    /\ pendingEffects = {}

\* The encoders are not being applied on their own.
CodecIdle ==
    /\ codecInput = Null /\ channelData = <<>>
    /\ codecOutput = Null /\ mp3Output = Null

Limits(l, e, f, p, s, r, c) ==
    [loads |-> l, exports |-> e, failures |-> f, previews |-> p, sources |-> s,
     recordings |-> r, clock |-> c]

Init ==
    /\ InitApp /\ CodecIdle
    /\ limits = Limits(MaxLoads, MaxExports, MaxFailures, MaxPreviews,
                       MaxSources, MaxRecordings, MaxClock)

(* --------------------------- React plumbing ---------------------------- *)
\* React runs the effects of a commit before it renders the next update:
\* a handler or callback that sets state finds no effect pending.  Steps
\* that set no state (a bare stop() call, the host's own steps) do not wait.
NoEffectPending == pendingEffects = {}

\* setAudioBuffer(b): the preview effect depends on audioBuffer and is
\* scheduled when the new value is another object (Object.is).
AudioBufferDeps(b) == IF b # audioBuffer THEN {"preview"} ELSE {}

(* ------------------------ setupAudioContext ---------------------------- *)
\* Faulty variant of ContextMissing: the guard always passes.
ContextMissingAlways == TRUE

\* if (!audioContextRef.current)
ContextMissing == audioContextRef = 0

\* The fixed connections of the live graph.
LiveEdges ==
    {<<DelayNode, FeedbackNode>>, <<FeedbackNode, DelayNode>>,
     <<DelayNode, NoiseNode>>, <<NoiseNode, MasterNode>>,
     <<MasterNode, BoostNode>>, <<BoostNode, ClarityNode>>,
     <<ClarityNode, Destination>>}

\* c is the closure the calling loadFile was created in.
SetupAudioContext(c) ==
    IF ContextMissing
    THEN /\ contexts' = contexts + 1
         /\ audioContextRef' = contexts + 1
         /\ masterProcessedGainRef' = GainNode(1)
         /\ delayNodeRef' = DelayLine(DelayCapacity, c.delayTime)
         /\ feedbackGainNodeRef' = GainNode(c.feedback)
         /\ noiseReductionFilterRef' =
                NoiseFilter("allpass", BiquadDefaultFrequency, BiquadDefaultQ)
         /\ voiceBoostGainNodeRef' = GainNode(c.voiceBoost)
         /\ clarityFilterNodeRef' = PeakingFilter(c.clarity)
         /\ connections' = connections \cup LiveEdges
    ELSE UNCHANGED <<liveGraph, connections>>

(* -------------------------- stopAllPlayback ---------------------------- *)
\* ref.current?.stop(): a playing source stops and its ended event is
\* queued; a source that already stopped or ended is left as it is.
Stop(srcs, ref) ==
    IF ref # 0 /\ srcs[ref].state = "playing"
    THEN [srcs EXCEPT ![ref].state = "stopping"]
    ELSE srcs

\* The five stop() calls of stopAllPlayback.
StopAll(srcs) ==
    Stop(Stop(Stop(Stop(Stop(srcs, originalSourceRef), processedSourceRef),
                   historySourceRef), beforePreviewSourceRef),
         afterPreviewSourceRef)

\* The four setters of stopAllPlayback.
ClearIndicators ==
    /\ isPlayingOriginal' = FALSE /\ isPlayingProcessed' = FALSE
    /\ playingHistoryId' = 0 /\ playingPreview' = "none"

StopAllPlayback == sources' = StopAll(sources) /\ ClearIndicators

(* ------------------------------ loadFile ------------------------------- *)
\* loadFile(file) as created in the render with closure c, up to its first
\* await.
LoadFile(file, c) ==
    /\ NoEffectPending
    /\ loads < limits.loads
    /\ StopAllPlayback
    /\ SetupAudioContext(c)
    /\ fileName' = file
    /\ audioBuffer' = Null
    /\ pendingEffects' = pendingEffects \cup AudioBufferDeps(Null)
    /\ loads' = loads + 1
    /\ decodes' = decodes \cup {[load |-> loads + 1, file |-> file]}
    /\ UNCHANGED loadsFailed
    /\ UNCHANGED <<history, params, sourceRefs, transientNodeRefs, exporting,
                   previewing, now, limits, codec>>

\* handleFileChange and handleDrop with a file: loadFile of the current render.
HandleFileChange(file) == LoadFile(file, Closure) /\ UNCHANGED recording

\* decodeAudioData resolves: setAudioBuffer(decodedData).
DecodeResolve(d) ==
    /\ d \in decodes
    /\ NoEffectPending
    /\ decodes' = decodes \ {d}
    /\ audioBuffer' = DecodedBuffer(d.load, d.file)
    /\ pendingEffects' = pendingEffects \cup {"preview"}
    /\ UNCHANGED <<fileName, history, playbackState, params, sourceRefs,
                   transientNodeRefs, liveGraph, connections, sources, recording,
                   loads, loadsFailed, exporting, previewing, now, limits, codec>>

\* Faulty variant of DecodeReject: the catch block resets the buffer but
\* leaves the file name.
DecodeRejectKeepsName(d) ==
    /\ d \in decodes
    /\ NoEffectPending
    /\ decodes' = decodes \ {d}
    /\ loadsFailed' = loadsFailed + 1
    /\ audioBuffer' = Null
    /\ pendingEffects' = pendingEffects \cup AudioBufferDeps(Null)
    /\ UNCHANGED <<fileName, history, playbackState, params, sourceRefs,
                   transientNodeRefs, liveGraph, connections, sources, recording,
                   loads, exporting, previewing, now, limits, codec>>

\* file.arrayBuffer() or decodeAudioData rejects: the catch block.
DecodeReject(d) ==
    /\ d \in decodes
    /\ NoEffectPending
    /\ decodes' = decodes \ {d}
    /\ loadsFailed' = loadsFailed + 1
    /\ fileName' = FailedName
    /\ audioBuffer' = Null
    /\ pendingEffects' = pendingEffects \cup AudioBufferDeps(Null)
    /\ UNCHANGED <<history, playbackState, params, sourceRefs,
                   transientNodeRefs, liveGraph, connections, sources, recording,
                   loads, exporting, previewing, now, limits, codec>>

(* ------------------------------ playback ------------------------------- *)
\* context.createBufferSource() ... source.start(0)
NewSource == Len(sources) + 1
Source(kind, item) == [kind |-> kind, state |-> "playing", item |-> item]
CanCreateSource == Len(sources) < limits.sources

\* Faulty variant of ToggleOriginalPlayback: the start leaves the other
\* indicators as they are.
ToggleOriginalPlaybackKeepsIndicators ==
    /\ audioContextRef # 0 /\ audioBuffer # Null
    /\ IF isPlayingOriginal
       THEN /\ sources' = Stop(sources, originalSourceRef)
            /\ UNCHANGED <<playbackState, originalSourceRef, connections>>
       ELSE /\ CanCreateSource
            /\ NoEffectPending
            /\ sources' = Append(StopAll(sources), Source("original", 0))
            /\ connections' = connections \cup {<<SourceNode(NewSource), Destination>>}
            /\ originalSourceRef' = NewSource
            /\ isPlayingOriginal' = TRUE
            /\ UNCHANGED <<isPlayingProcessed, playingHistoryId, playingPreview>>
    /\ UNCHANGED <<audioBuffer, fileName, history, params, processedSourceRef,
                   historySourceRef, beforePreviewSourceRef, afterPreviewSourceRef,
                   transientNodeRefs, liveGraph, recording, loading, exporting,
                   previewing, now, pendingEffects, limits, codec>>

ToggleOriginalPlayback ==
    /\ audioContextRef # 0 /\ audioBuffer # Null
    /\ IF isPlayingOriginal
       THEN /\ sources' = Stop(sources, originalSourceRef)
            /\ UNCHANGED <<playbackState, originalSourceRef, connections>>
       ELSE /\ CanCreateSource
            /\ NoEffectPending
            /\ sources' = Append(StopAll(sources), Source("original", 0))
            /\ connections' = connections \cup {<<SourceNode(NewSource), Destination>>}
            /\ originalSourceRef' = NewSource
            /\ isPlayingOriginal' = TRUE /\ isPlayingProcessed' = FALSE
            /\ playingHistoryId' = 0 /\ playingPreview' = "none"
    /\ UNCHANGED <<audioBuffer, fileName, history, params, processedSourceRef,
                   historySourceRef, beforePreviewSourceRef, afterPreviewSourceRef,
                   transientNodeRefs, liveGraph, recording, loading, exporting,
                   previewing, now, pendingEffects, limits, codec>>

ToggleProcessedPlayback ==
    /\ audioContextRef # 0 /\ audioBuffer # Null
    /\ delayNodeRef # Null /\ masterProcessedGainRef # Null
    /\ IF isPlayingProcessed
       THEN /\ sources' = Stop(sources, processedSourceRef)
            /\ UNCHANGED <<playbackState, processedSourceRef, connections,
                           transientNodeRefs>>
       ELSE /\ CanCreateSource
            /\ NoEffectPending
            /\ sources' = Append(StopAll(sources), Source("processed", 0))
            /\ dryGainRef' = NewSource /\ wetGainRef' = NewSource
            /\ connections' = connections \cup
                   {<<SourceNode(NewSource), DryNode(NewSource)>>,
                    <<SourceNode(NewSource), WetNode(NewSource)>>,
                    <<DryNode(NewSource), MasterNode>>,
                    <<WetNode(NewSource), DelayNode>>}
            /\ processedSourceRef' = NewSource
            /\ isPlayingOriginal' = FALSE /\ isPlayingProcessed' = TRUE
            /\ playingHistoryId' = 0 /\ playingPreview' = "none"
    /\ UNCHANGED <<audioBuffer, fileName, history, params, originalSourceRef,
                   historySourceRef, beforePreviewSourceRef, afterPreviewSourceRef,
                   liveGraph, recording, loading, exporting, previewing, now,
                   pendingEffects, limits, codec>>

TogglePreviewPlayback(type) ==
    /\ audioContextRef # 0 /\ audioBuffer # Null
    /\ type = "after" => processedVisBuffer # Null
    /\ IF playingPreview = type
       THEN /\ sources' = Stop(sources, IF type = "before"
                                        THEN beforePreviewSourceRef
                                        ELSE afterPreviewSourceRef)
            /\ UNCHANGED <<playbackState, beforePreviewSourceRef,
                           afterPreviewSourceRef, connections>>
       ELSE /\ CanCreateSource
            /\ NoEffectPending
            /\ sources' = Append(StopAll(sources), Source(type, 0))
            /\ connections' = connections \cup {<<SourceNode(NewSource), Destination>>}
            /\ IF type = "before"
               THEN beforePreviewSourceRef' = NewSource
                    /\ UNCHANGED afterPreviewSourceRef
               ELSE afterPreviewSourceRef' = NewSource
                    /\ UNCHANGED beforePreviewSourceRef
            /\ isPlayingOriginal' = FALSE /\ isPlayingProcessed' = FALSE
            /\ playingHistoryId' = 0 /\ playingPreview' = type
    /\ UNCHANGED <<audioBuffer, fileName, history, params, originalSourceRef,
                   processedSourceRef, historySourceRef, transientNodeRefs,
                   liveGraph, recording, loading, exporting, previewing, now,
                   pendingEffects, limits, codec>>

\* handleHistoryPlay(item) for the item at position i of history.
HandleHistoryPlay(i) ==
    /\ i \in 1..Len(history)
    /\ NoEffectPending
    /\ IF playingHistoryId = history[i].id
       THEN /\ sources' = Stop(sources, historySourceRef)
            /\ playingHistoryId' = 0
            /\ UNCHANGED <<isPlayingOriginal, isPlayingProcessed, playingPreview,
                           historySourceRef, connections>>
       ELSE IF audioContextRef = 0
       THEN /\ StopAllPlayback
            /\ UNCHANGED <<historySourceRef, connections>>
       ELSE /\ CanCreateSource
            /\ NoEffectPending
            /\ sources' = Append(StopAll(sources), Source("history", history[i].id))
            /\ connections' = connections \cup {<<SourceNode(NewSource), Destination>>}
            /\ historySourceRef' = NewSource
            /\ isPlayingOriginal' = FALSE /\ isPlayingProcessed' = FALSE
            /\ playingHistoryId' = history[i].id /\ playingPreview' = "none"
    /\ UNCHANGED <<audioBuffer, fileName, history, params, originalSourceRef,
                   processedSourceRef, beforePreviewSourceRef, afterPreviewSourceRef,
                   transientNodeRefs, liveGraph, recording, loading, exporting,
                   previewing, now, pendingEffects, limits, codec>>

\* Faulty variant of HandleHistoryLoad: the loaded item is taken out of
\* the list.
HandleHistoryLoadRemoves(i) ==
    /\ i \in 1..Len(history)
    /\ NoEffectPending
    /\ StopAllPlayback
    /\ audioBuffer' = history[i].audioBuffer
    /\ fileName' = FromHistoryName(history[i].fileName)
    /\ pendingEffects' = pendingEffects \cup AudioBufferDeps(history[i].audioBuffer)
    /\ history' = SubSeq(history, 1, i - 1) \o SubSeq(history, i + 1, Len(history))
    /\ UNCHANGED <<params, sourceRefs, transientNodeRefs, liveGraph,
                   connections, recording, loading, exporting, previewing, now,
                   limits, codec>>

\* handleHistoryLoad(item) for the item at position i of history.
HandleHistoryLoad(i) ==
    /\ i \in 1..Len(history)
    /\ NoEffectPending
    /\ StopAllPlayback
    /\ audioBuffer' = history[i].audioBuffer
    /\ fileName' = FromHistoryName(history[i].fileName)
    /\ pendingEffects' = pendingEffects \cup AudioBufferDeps(history[i].audioBuffer)
    /\ UNCHANGED <<history, params, sourceRefs, transientNodeRefs, liveGraph,
                   connections, recording, loading, exporting, previewing, now,
                   limits, codec>>

\* The buffer of a playing source runs out: the host stops the source and
\* queues its ended event.
SourceFinish(s) ==
    /\ s \in 1..Len(sources)
    /\ sources[s].state = "playing"
    /\ sources' = [sources EXCEPT ![s].state = "stopping"]
    /\ UNCHANGED <<audioBuffer, fileName, history, playbackState, params,
                   sourceRefs, transientNodeRefs, liveGraph, connections,
                   recording, loading, exporting, previewing, now,
                   pendingEffects, limits, codec>>

\* node.disconnect(): every outgoing connection of the node goes.
Disconnect(edges, node) == {e \in edges : e[1] # node}

\* The ended event of source s is delivered: its onended callback runs.
OnEnded(s) ==
    /\ s \in 1..Len(sources)
    /\ sources[s].state = "stopping"
    /\ NoEffectPending
    /\ sources' = [sources EXCEPT ![s].state = "ended"]
    /\ CASE sources[s].kind = "original" ->
              /\ isPlayingOriginal' = FALSE
              /\ UNCHANGED <<isPlayingProcessed, playingHistoryId, playingPreview,
                             sourceRefs, connections>>
         [] sources[s].kind = "processed" ->
              /\ isPlayingProcessed' = FALSE
              /\ connections' =
                     Disconnect(Disconnect(connections, DryNode(dryGainRef)),
                                WetNode(wetGainRef))
              /\ UNCHANGED <<isPlayingOriginal, playingHistoryId, playingPreview,
                             sourceRefs>>
         [] sources[s].kind = "history" ->
              /\ playingHistoryId' = 0
              /\ historySourceRef' = 0
              /\ UNCHANGED <<isPlayingOriginal, isPlayingProcessed, playingPreview,
                             originalSourceRef, processedSourceRef,
                             beforePreviewSourceRef, afterPreviewSourceRef,
                             connections>>
         [] sources[s].kind = "before" ->
              /\ playingPreview' = "none"
              /\ beforePreviewSourceRef' = 0
              /\ UNCHANGED <<isPlayingOriginal, isPlayingProcessed, playingHistoryId,
                             originalSourceRef, processedSourceRef, historySourceRef,
                             afterPreviewSourceRef, connections>>
         [] sources[s].kind = "after" ->
              /\ playingPreview' = "none"
              /\ afterPreviewSourceRef' = 0
              /\ UNCHANGED <<isPlayingOriginal, isPlayingProcessed, playingHistoryId,
                             originalSourceRef, processedSourceRef, historySourceRef,
                             beforePreviewSourceRef, connections>>
    /\ UNCHANGED <<audioBuffer, fileName, history, params, transientNodeRefs,
                   liveGraph, recording, loading, exporting, previewing, now,
                   pendingEffects, limits, codec>>

(* ------------------------- effect parameters --------------------------- *)
\* A state setter schedules the effects that list the state in their
\* dependencies, unless the value is the one already held.
Deps(old, new, effects) == IF new # old THEN effects ELSE {}

\* Faulty variant of SetDelayTime: the preview effect lists delayTime among
\* its dependencies.
SetDelayTimeSchedulesPreview(v) ==
    /\ NoEffectPending
    /\ delayTime' = v
    /\ pendingEffects' =
           pendingEffects \cup Deps(delayTime, v, {"delayTime", "preview"})
    /\ UNCHANGED <<audioBuffer, fileName, history, playbackState, feedback,
                   isClarityOn, voiceBoost, clarity, sourceRefs, transientNodeRefs,
                   liveGraph, connections, sources, recording, loading, exporting,
                   previewing, now, limits, codec>>

SetDelayTime(v) ==
    /\ NoEffectPending
    /\ delayTime' = v
    /\ pendingEffects' = pendingEffects \cup Deps(delayTime, v, {"delayTime"})
    /\ UNCHANGED <<audioBuffer, fileName, history, playbackState, feedback,
                   isClarityOn, voiceBoost, clarity, sourceRefs, transientNodeRefs,
                   liveGraph, connections, sources, recording, loading, exporting,
                   previewing, now, limits, codec>>

SetFeedback(v) ==
    /\ NoEffectPending
    /\ feedback' = v
    /\ pendingEffects' = pendingEffects \cup Deps(feedback, v, {"feedback"})
    /\ UNCHANGED <<audioBuffer, fileName, history, playbackState, delayTime,
                   isClarityOn, voiceBoost, clarity, sourceRefs, transientNodeRefs,
                   liveGraph, connections, sources, recording, loading, exporting,
                   previewing, now, limits, codec>>

SetIsClarityOn(b) ==
    /\ NoEffectPending
    /\ isClarityOn' = b
    /\ pendingEffects' =
           pendingEffects \cup Deps(isClarityOn, b, {"isClarityOn", "preview"})
    /\ UNCHANGED <<audioBuffer, fileName, history, playbackState, delayTime,
                   feedback, voiceBoost, clarity, sourceRefs, transientNodeRefs,
                   liveGraph, connections, sources, recording, loading, exporting,
                   previewing, now, limits, codec>>

SetVoiceBoost(v) ==
    /\ NoEffectPending
    /\ voiceBoost' = v
    /\ pendingEffects' =
           pendingEffects \cup Deps(voiceBoost, v, {"voiceBoost", "preview"})
    /\ UNCHANGED <<audioBuffer, fileName, history, playbackState, delayTime,
                   feedback, isClarityOn, clarity, sourceRefs, transientNodeRefs,
                   liveGraph, connections, sources, recording, loading, exporting,
                   previewing, now, limits, codec>>

SetClarity(v) ==
    /\ NoEffectPending
    /\ clarity' = v
    /\ pendingEffects' = pendingEffects \cup Deps(clarity, v, {"clarity", "preview"})
    /\ UNCHANGED <<audioBuffer, fileName, history, playbackState, delayTime,
                   feedback, isClarityOn, voiceBoost, sourceRefs, transientNodeRefs,
                   liveGraph, connections, sources, recording, loading, exporting,
                   previewing, now, limits, codec>>

\* Faulty variant of EffectFrame: the effect reconnects the persistent graph
\* from scratch.
EffectFrameRebuild ==
    /\ connections' = LiveEdges
    /\ UNCHANGED <<audioBuffer, fileName, history, playbackState, params, sourceRefs,
                   transientNodeRefs, audioContextRef, contexts,
                   masterProcessedGainRef, sources, recording, loading, exporting,
                   previewing, now, limits, codec>>

\* What every parameter effect leaves alone.
EffectFrame ==
    UNCHANGED <<audioBuffer, fileName, history, playbackState, params, sourceRefs,
                transientNodeRefs, audioContextRef, contexts, masterProcessedGainRef,
                connections, sources, recording, loading, exporting, previewing,
                now, limits, codec>>

\* useEffect(..., [delayTime])
DelayTimeEffect ==
    /\ "delayTime" \in pendingEffects
    /\ pendingEffects' = pendingEffects \ {"delayTime"}
    /\ IF audioContextRef # 0 /\ delayNodeRef # Null
       THEN delayNodeRef' = [delayNodeRef EXCEPT !.delayTime = delayTime]
       ELSE UNCHANGED delayNodeRef
    /\ UNCHANGED <<feedbackGainNodeRef, noiseReductionFilterRef,
                   voiceBoostGainNodeRef, clarityFilterNodeRef>>
    /\ EffectFrame

\* useEffect(..., [feedback])
FeedbackEffect ==
    /\ "feedback" \in pendingEffects
    /\ pendingEffects' = pendingEffects \ {"feedback"}
    /\ IF audioContextRef # 0 /\ feedbackGainNodeRef # Null
       THEN feedbackGainNodeRef' = [feedbackGainNodeRef EXCEPT !.gain = feedback]
       ELSE UNCHANGED feedbackGainNodeRef
    /\ UNCHANGED <<delayNodeRef, noiseReductionFilterRef, voiceBoostGainNodeRef,
                   clarityFilterNodeRef>>
    /\ EffectFrame

\* useEffect(..., [isClarityOn])
NoiseReductionEffect ==
    /\ "isClarityOn" \in pendingEffects
    /\ pendingEffects' = pendingEffects \ {"isClarityOn"}
    /\ IF audioContextRef # 0 /\ noiseReductionFilterRef # Null
       THEN IF isClarityOn
            THEN noiseReductionFilterRef' =
                     [noiseReductionFilterRef EXCEPT !.type = "lowpass",
                                                     !.frequency = LowpassFrequency,
                                                     !.Q = LowpassQ]
            ELSE noiseReductionFilterRef' =
                     [noiseReductionFilterRef EXCEPT !.type = "allpass"]
       ELSE UNCHANGED noiseReductionFilterRef
    /\ UNCHANGED <<delayNodeRef, feedbackGainNodeRef, voiceBoostGainNodeRef,
                   clarityFilterNodeRef>>
    /\ EffectFrame

\* useEffect(..., [voiceBoost])
VoiceBoostEffect ==
    /\ "voiceBoost" \in pendingEffects
    /\ pendingEffects' = pendingEffects \ {"voiceBoost"}
    /\ IF audioContextRef # 0 /\ voiceBoostGainNodeRef # Null
       THEN voiceBoostGainNodeRef' = [voiceBoostGainNodeRef EXCEPT !.gain = voiceBoost]
       ELSE UNCHANGED voiceBoostGainNodeRef
    /\ UNCHANGED <<delayNodeRef, feedbackGainNodeRef, noiseReductionFilterRef,
                   clarityFilterNodeRef>>
    /\ EffectFrame

\* useEffect(..., [clarity])
ClarityEffect ==
    /\ "clarity" \in pendingEffects
    /\ pendingEffects' = pendingEffects \ {"clarity"}
    /\ IF audioContextRef # 0 /\ clarityFilterNodeRef # Null
       THEN clarityFilterNodeRef' = [clarityFilterNodeRef EXCEPT !.gain = clarity]
       ELSE UNCHANGED clarityFilterNodeRef
    /\ UNCHANGED <<delayNodeRef, feedbackGainNodeRef, noiseReductionFilterRef,
                   voiceBoostGainNodeRef>>
    /\ EffectFrame

(* --------------------------- offline renders --------------------------- *)
\* The noise filter of an offline graph: if (isClarityOn) ... else ...
OfflineNoiseFilter(on) ==
    IF on THEN NoiseFilter("lowpass", LowpassFrequency, LowpassQ)
          ELSE NoiseFilter("allpass", BiquadDefaultFrequency, BiquadDefaultQ)

\* Faulty variant of OfflineContext: the context is made longer by the
\* capacity of the delay line, to hold the tail of the echo.
OfflineContextWithTail(buffer) ==
    Shape(buffer.shape.numberOfChannels, buffer.shape.length + DelayCapacity,
          buffer.shape.sampleRate)

\* new OfflineAudioContext(buffer.numberOfChannels, buffer.length,
\* buffer.sampleRate): the shape of what startRendering will yield.
OfflineContext(buffer) ==
    Shape(buffer.shape.numberOfChannels, buffer.shape.length,
          buffer.shape.sampleRate)

\* The connections handleDownload makes in its OfflineAudioContext.
\* Faulty variant of ExportEdges: the feedback gain is not fed back into
\* the delay.
ExportEdgesWithoutLoop ==
    {<<Node("source", 0), Node("dry", 0)>>, <<Node("source", 0), Node("wet", 0)>>,
     <<Node("dry", 0), MasterNode>>, <<Node("wet", 0), DelayNode>>,
     <<DelayNode, FeedbackNode>>,
     <<DelayNode, NoiseNode>>, <<NoiseNode, MasterNode>>,
     <<MasterNode, BoostNode>>, <<BoostNode, ClarityNode>>,
     <<ClarityNode, Destination>>}

ExportEdges ==
    {<<Node("source", 0), Node("dry", 0)>>, <<Node("source", 0), Node("wet", 0)>>,
     <<Node("dry", 0), MasterNode>>, <<Node("wet", 0), DelayNode>>,
     <<DelayNode, FeedbackNode>>, <<FeedbackNode, DelayNode>>,
     <<DelayNode, NoiseNode>>, <<NoiseNode, MasterNode>>,
     <<MasterNode, BoostNode>>, <<BoostNode, ClarityNode>>,
     <<ClarityNode, Destination>>}

\* Faulty variant of ExportGraph: the feedback gain is taken from delayTime.
ExportGraphFeedbackFromDelay ==
    [delay |-> DelayLine(DelayCapacity, delayTime),
     feedbackGain |-> GainNode(delayTime),
     boost |-> GainNode(voiceBoost),
     clarityFilter |-> PeakingFilter(clarity),
     noiseReduction |-> OfflineNoiseFilter(isClarityOn),
     edges |-> ExportEdges,
     context |-> OfflineContext(audioBuffer)]

\* The graph handleDownload builds from the state of its render.
ExportGraph ==
    [delay |-> DelayLine(DelayCapacity, delayTime),
     feedbackGain |-> GainNode(feedback),
     boost |-> GainNode(voiceBoost),
     clarityFilter |-> PeakingFilter(clarity),
     noiseReduction |-> OfflineNoiseFilter(isClarityOn),
     edges |-> ExportEdges,
     context |-> OfflineContext(audioBuffer)]

\* The connections processForVis makes in its OfflineAudioContext.
PreviewEdges ==
    {<<Node("source", 0), BoostNode>>, <<BoostNode, ClarityNode>>,
     <<ClarityNode, NoiseNode>>, <<NoiseNode, Destination>>}

\* The graph processForVis builds from the state of its render.
PreviewGraph ==
    [boost |-> GainNode(voiceBoost),
     clarityFilter |-> PeakingFilter(clarity),
     noiseReduction |-> OfflineNoiseFilter(isClarityOn),
     edges |-> PreviewEdges,
     context |-> OfflineContext(audioBuffer)]

\* Faulty variant of RenderedExport: the render reads the parameters when it
\* completes, as if its nodes were shared with the live state.
RenderedExportFromState(n, input, g) ==
    [origin |-> "export", seq |-> n, file |-> input.file, input |-> input,
     fx |-> [delayTime |-> delayTime, feedback |-> feedback,
             voiceBoost |-> voiceBoost, clarity |-> clarity,
             noise |-> OfflineNoiseFilter(isClarityOn).type],
     shape |-> g.context]

\* What startRendering yields for an export graph g fed with buffer input.
RenderedExport(n, input, g) ==
    [origin |-> "export", seq |-> n, file |-> input.file, input |-> input,
     fx |-> [delayTime |-> g.delay.delayTime, feedback |-> g.feedbackGain.gain,
             voiceBoost |-> g.boost.gain, clarity |-> g.clarityFilter.gain,
             noise |-> g.noiseReduction.type],
     shape |-> g.context]

\* What startRendering yields for a preview graph g fed with buffer input.
RenderedPreview(n, input, g) ==
    [origin |-> "preview", seq |-> n, file |-> input.file, input |-> input,
     fx |-> [delayTime |-> 0, feedback |-> 0,
             voiceBoost |-> g.boost.gain, clarity |-> g.clarityFilter.gain,
             noise |-> g.noiseReduction.type],
     shape |-> g.context]

\* bufferToWav(buffer) and bufferToMp3(buffer) as blobs that remember the
\* buffer they were encoded from.
WavBlob(buffer) == [type |-> "audio/wav", origin |-> buffer.origin, seq |-> buffer.seq]
Mp3Blob(buffer) == [type |-> "audio/mpeg", origin |-> buffer.origin, seq |-> buffer.seq]

\* Faulty variants of HistoryInsert: no slice; the new item put last.
HistoryInsertUncapped(item, prev) == <<item>> \o prev
HistoryInsertLast(item, prev) == Slice(prev \o <<item>>, HistoryCap)

\* setHistory(prev => [newHistoryItem, ...prev].slice(0, 10))
HistoryInsert(item, prev) == Slice(<<item>> \o prev, HistoryCap)

\* a.download = `processed_${fileName}.${format}`; a.click()
Download(itemName, format, blob) ==
    [name |-> Name("processed_" \o itemName, "." \o format), blob |-> blob]

\* The download buttons are disabled without a buffer and during an export.
DownloadEnabled == audioBuffer # Null /\ renderingFormat = "none"

\* Faulty variant of HandleDownload: the export stops all playback before
\* it renders.
HandleDownloadStopsPlayback(format) ==
    /\ DownloadEnabled
    /\ NoEffectPending
    /\ exportsStarted < limits.exports
    /\ StopAllPlayback
    /\ exportsStarted' = exportsStarted + 1
    /\ renderingFormat' = format
    /\ exports' = exports \cup
           {[seq |-> exportsStarted + 1, format |-> format, input |-> audioBuffer,
             fileName |-> fileName, graph |-> ExportGraph]}
    /\ UNCHANGED <<exportsFailed, lastDownload>>
    /\ UNCHANGED <<audioBuffer, fileName, history, params, sourceRefs,
                   transientNodeRefs, liveGraph, connections, recording, loading,
                   previewing, now, pendingEffects, limits, codec>>

\* handleDownload(format) up to its await.
HandleDownload(format) ==
    /\ DownloadEnabled
    /\ NoEffectPending
    /\ exportsStarted < limits.exports
    /\ exportsStarted' = exportsStarted + 1
    /\ renderingFormat' = format
    /\ exports' = exports \cup
           {[seq |-> exportsStarted + 1, format |-> format, input |-> audioBuffer,
             fileName |-> fileName, graph |-> ExportGraph]}
    /\ UNCHANGED <<exportsFailed, lastDownload>>
    /\ UNCHANGED <<audioBuffer, fileName, history, playbackState, params,
                   sourceRefs, transientNodeRefs, liveGraph, connections, sources,
                   recording, loading, previewing, now, pendingEffects, limits, codec>>

\* handleDownload(format) when the OfflineAudioContext constructor or the
\* graph construction throws: catch, then finally, in the same task.
HandleDownloadThrows(format) ==
    /\ DownloadEnabled
    /\ NoEffectPending
    /\ exportsStarted < limits.exports
    /\ exportsFailed < limits.failures
    /\ exportsStarted' = exportsStarted + 1
    /\ exportsFailed' = exportsFailed + 1
    /\ renderingFormat' = "none"
    /\ UNCHANGED <<audioBuffer, fileName, history, playbackState, params,
                   sourceRefs, transientNodeRefs, liveGraph, connections, sources,
                   recording, loading, exports, lastDownload, previewing, now,
                   pendingEffects,
                   limits, codec>>

\* Faulty variant of NewHistoryItem: the WAV blob is encoded from the
\* buffer that went into the render.
NewHistoryItemWavOfInput(e, rendered) ==
    [id |-> now, fileName |-> HistoryFileName(e.fileName), timestamp |-> now,
     audioBuffer |-> rendered, wavBlob |-> WavBlob(e.input),
     mp3Blob |-> Mp3Blob(rendered)]

\* The HistoryItem handleDownload builds after a render.
NewHistoryItem(e, rendered) ==
    [id |-> now, fileName |-> HistoryFileName(e.fileName), timestamp |-> now,
     audioBuffer |-> rendered, wavBlob |-> WavBlob(rendered),
     mp3Blob |-> Mp3Blob(rendered)]

\* The blob of the item in the format asked for, offered as a download.
DownloadOf(item, format) ==
    Download(item.fileName, format,
             IF format = "wav" THEN item.wavBlob ELSE item.mp3Blob)

\* Faulty variant of ReachesSetHistory: setHistory moved before bufferToMp3.
ReachesSetHistoryBeforeMp3(outcome) == outcome \in {"ok", "mp3Throws"}

\* setHistory comes after both encoders in the try block: it is reached
\* only if neither threw.
ReachesSetHistory(outcome) == outcome = "ok"

\* startRendering resolves and handleDownload continues; outcome says
\* whether bufferToWav or bufferToMp3 throws.
RenderResolve(e, outcome) ==
    /\ e \in exports
    /\ NoEffectPending
    /\ exports' = exports \ {e}
    /\ renderingFormat' = "none"
    /\ IF ReachesSetHistory(outcome)
       THEN history' = HistoryInsert(
                NewHistoryItem(e, RenderedExport(e.seq, e.input, e.graph)), history)
       ELSE UNCHANGED history
    /\ IF outcome = "ok"
       THEN lastDownload' = DownloadOf(
                NewHistoryItem(e, RenderedExport(e.seq, e.input, e.graph)), e.format)
       ELSE UNCHANGED lastDownload
    /\ IF outcome = "ok"
       THEN UNCHANGED exportsFailed
       ELSE /\ exportsFailed < limits.failures
            /\ exportsFailed' = exportsFailed + 1
    /\ UNCHANGED <<audioBuffer, fileName, playbackState, params, sourceRefs,
                   transientNodeRefs, liveGraph, connections, sources, recording,
                   loading, exportsStarted, previewing, now, pendingEffects, limits, codec>>

\* Faulty variant of RenderReject: the catch block runs but no finally
\* block resets renderingFormat.
RenderRejectWithoutFinally(e) ==
    /\ e \in exports
    /\ NoEffectPending
    /\ exportsFailed < limits.failures
    /\ exportsFailed' = exportsFailed + 1
    /\ exports' = exports \ {e}
    /\ UNCHANGED <<audioBuffer, fileName, history, playbackState, params,
                   sourceRefs, transientNodeRefs, liveGraph, connections, sources,
                   recording, loading, renderingFormat, exportsStarted,
                   lastDownload, previewing, now, pendingEffects, limits, codec>>

\* startRendering rejects: catch, then finally.
RenderReject(e) ==
    /\ e \in exports
    /\ NoEffectPending
    /\ exportsFailed < limits.failures
    /\ exportsFailed' = exportsFailed + 1
    /\ exports' = exports \ {e}
    /\ renderingFormat' = "none"
    /\ UNCHANGED <<audioBuffer, fileName, history, playbackState, params,
                   sourceRefs, transientNodeRefs, liveGraph, connections, sources,
                   recording, loading, exportsStarted, lastDownload, previewing,
                   now, pendingEffects, limits, codec>>

\* handleHistoryDownload(blob, fileName, format) from the buttons of the
\* item at position i of history.
HandleHistoryDownload(i, format) ==
    /\ i \in 1..Len(history)
    /\ lastDownload' = DownloadOf(history[i], format)
    /\ UNCHANGED <<audioBuffer, fileName, history, playbackState, params,
                   sourceRefs, transientNodeRefs, liveGraph, connections, sources,
                   recording, loading, renderingFormat, exports, exportsStarted,
                   exportsFailed, previewing, now, pendingEffects, limits, codec>>

\* The millisecond clock behind Date.now() advances.
Tick ==
    /\ now < limits.clock
    /\ now' = now + 1
    /\ UNCHANGED <<audioBuffer, fileName, history, playbackState, params,
                   sourceRefs, transientNodeRefs, liveGraph, connections, sources,
                   recording, loading, exporting, previewing, pendingEffects, limits, codec>>

\* The preview effect, useEffect(..., [audioBuffer, voiceBoost, clarity,
\* isClarityOn]), up to the await of processForVis; throws says whether the
\* OfflineAudioContext constructor throws, which the catch block only logs.
PreviewEffect(throws) ==
    /\ "preview" \in pendingEffects
    /\ pendingEffects' = pendingEffects \ {"preview"}
    /\ IF audioBuffer = Null
       THEN /\ processedVisBuffer' = Null
            /\ UNCHANGED <<previews, previewsStarted>>
       ELSE IF throws
       THEN UNCHANGED <<processedVisBuffer, previews, previewsStarted>>
       ELSE /\ previewsStarted < limits.previews
            /\ previewsStarted' = previewsStarted + 1
            /\ previews' = previews \cup
                   {[seq |-> previewsStarted + 1, input |-> audioBuffer,
                     graph |-> PreviewGraph]}
            /\ UNCHANGED processedVisBuffer
    /\ UNCHANGED <<audioBuffer, fileName, history, playbackState, params,
                   sourceRefs, transientNodeRefs, liveGraph, connections, sources,
                   recording, loading, exporting, now, limits, codec>>

\* startRendering of a preview resolves: setProcessedVisBuffer(renderedBuffer).
PreviewResolve(p) ==
    /\ p \in previews
    /\ NoEffectPending
    /\ previews' = previews \ {p}
    /\ processedVisBuffer' = RenderedPreview(p.seq, p.input, p.graph)
    /\ UNCHANGED <<audioBuffer, fileName, history, playbackState, params,
                   sourceRefs, transientNodeRefs, liveGraph, connections, sources,
                   recording, loading, exporting, previewsStarted, now,
                   pendingEffects, limits, codec>>

\* startRendering of a preview rejects: the catch block only logs.
PreviewReject(p) ==
    /\ p \in previews
    /\ previews' = previews \ {p}
    /\ UNCHANGED <<audioBuffer, fileName, history, playbackState, params,
                   sourceRefs, transientNodeRefs, liveGraph, connections, sources,
                   recording, loading, exporting, processedVisBuffer,
                   previewsStarted, now, pendingEffects, limits, codec>>

(* ------------------------------ recording ------------------------------ *)
\* startRecording() up to its await of getUserMedia.  The recorder's onstop
\* will call the loadFile of this render, so its closure is kept.
StartRecording ==
    /\ ~isRecording
    /\ recordingsStarted < limits.recordings
    /\ recordingsStarted' = recordingsStarted + 1
    /\ mediaRequests' = mediaRequests \cup
           {[id |-> recordingsStarted + 1, closure |-> Closure]}
    /\ UNCHANGED <<audioBuffer, fileName, history, playbackState, params,
                   sourceRefs, transientNodeRefs, liveGraph, connections, sources,
                   isRecording, mediaRecorderRef, timerIntervalRef, recorders,
                   timers, loading, exporting, previewing, now, pendingEffects,
                   limits, codec>>

\* getUserMedia rejects: the catch block alerts.
GetUserMediaReject(q) ==
    /\ q \in mediaRequests
    /\ mediaRequests' = mediaRequests \ {q}
    /\ UNCHANGED <<audioBuffer, fileName, history, playbackState, params,
                   sourceRefs, transientNodeRefs, liveGraph, connections, sources,
                   isRecording, mediaRecorderRef, timerIntervalRef, recorders,
                   timers, recordingsStarted, loading, exporting, previewing, now,
                   pendingEffects, limits, codec>>

Recorder(state, c) == [state |-> state, closure |-> c]

\* getUserMedia resolves and startRecording continues; outcome says whether
\* new MediaRecorder(stream) or recorder.start() throws.
GetUserMediaResolve(q, outcome) ==
    /\ q \in mediaRequests
    /\ NoEffectPending
    /\ mediaRequests' = mediaRequests \ {q}
    /\ StopAllPlayback
    /\ isRecording' = TRUE
    /\ CASE outcome = "constructorThrows" ->
              UNCHANGED <<mediaRecorderRef, recorders, timerIntervalRef, timers>>
         [] outcome = "startThrows" ->
              /\ mediaRecorderRef' = q.id
              /\ recorders' = recorders @@ (q.id :> Recorder("inactive", q.closure))
              /\ UNCHANGED <<timerIntervalRef, timers>>
         [] outcome = "ok" ->
              /\ mediaRecorderRef' = q.id
              /\ recorders' = recorders @@ (q.id :> Recorder("recording", q.closure))
              /\ timerIntervalRef' = q.id
              /\ timers' = timers \cup {q.id}
    /\ UNCHANGED <<audioBuffer, fileName, history, params, sourceRefs,
                   transientNodeRefs, liveGraph, connections, recordingsStarted,
                   loading, exporting, previewing, now, pendingEffects, limits, codec>>

\* stopRecording(); stop() of a recorder that is not recording either
\* throws InvalidStateError (throws = TRUE) or does nothing, by host.
StopRecording(throws) ==
    /\ isRecording /\ mediaRecorderRef # 0
    /\ IF recorders[mediaRecorderRef].state # "recording" /\ throws
       THEN UNCHANGED <<isRecording, recorders, timerIntervalRef, timers>>
       ELSE /\ NoEffectPending
            /\ recorders' =
                   IF recorders[mediaRecorderRef].state = "recording"
                   THEN [recorders EXCEPT ![mediaRecorderRef].state = "stopping"]
                   ELSE recorders
            /\ isRecording' = FALSE
            /\ timers' = timers \ {timerIntervalRef}
            /\ timerIntervalRef' = 0
    /\ UNCHANGED <<audioBuffer, fileName, history, playbackState, params,
                   sourceRefs, transientNodeRefs, liveGraph, connections, sources,
                   mediaRecorderRef, mediaRequests, recordingsStarted, loading,
                   exporting, previewing, now, pendingEffects, limits, codec>>

\* The stop event of recorder r is delivered: recorder.onstop calls the
\* loadFile of the render startRecording was called in.
RecorderOnStop(r) ==
    /\ r \in DOMAIN recorders
    /\ recorders[r].state = "stopping"
    /\ recorders' = [recorders EXCEPT ![r].state = "inactive"]
    /\ LoadFile(RecordingName, recorders[r].closure)
    /\ UNCHANGED <<isRecording, mediaRecorderRef, timerIntervalRef, mediaRequests,
                   timers, recordingsStarted>>

(* ------------------------------- inputs -------------------------------- *)
\* Positions the sliders are moved to in the scenarios: both ends of each.
DelayInputs == Ends(Slider(DelayMin, DelayMax))
FeedbackInputs == Ends(Slider(FeedbackMin, FeedbackMax))
BoostInputs == Ends(Slider(BoostMin, BoostMax))
ClarityInputs == Ends(Slider(ClarityMin, ClarityMax))
Formats == {"wav", "mp3"}
EncodeOutcomes == {"ok", "wavThrows", "mp3Throws"}
RecorderOutcomes == {"ok", "constructorThrows", "startThrows"}

(* ---------------------------- specifications --------------------------- *)
Next ==
    \/ \E f \in Files : HandleFileChange(f)
    \/ \E d \in decodes : DecodeResolve(d)
    \/ \E d \in decodes : DecodeReject(d)
    \/ ToggleOriginalPlayback
    \/ ToggleProcessedPlayback
    \/ \E t \in {"before", "after"} : TogglePreviewPlayback(t)
    \/ \E i \in 1..Len(history) : HandleHistoryPlay(i)
    \/ \E i \in 1..Len(history) : HandleHistoryLoad(i)
    \/ \E s \in 1..Len(sources) : SourceFinish(s)
    \/ \E s \in 1..Len(sources) : OnEnded(s)
    \/ \E v \in DelayInputs : SetDelayTime(v)
    \/ \E v \in FeedbackInputs : SetFeedback(v)
    \/ \E b \in BOOLEAN : SetIsClarityOn(b)
    \/ \E v \in BoostInputs : SetVoiceBoost(v)
    \/ \E v \in ClarityInputs : SetClarity(v)
    \/ DelayTimeEffect
    \/ FeedbackEffect
    \/ NoiseReductionEffect
    \/ VoiceBoostEffect
    \/ ClarityEffect
    \/ \E t \in BOOLEAN : PreviewEffect(t)
    \/ \E p \in previews : PreviewResolve(p)
    \/ \E p \in previews : PreviewReject(p)
    \/ \E f \in Formats : HandleDownload(f)
    \/ \E f \in Formats : HandleDownloadThrows(f)
    \/ \E e \in exports, o \in EncodeOutcomes : RenderResolve(e, o)
    \/ \E e \in exports : RenderReject(e)
    \/ \E i \in 1..Len(history), f \in Formats : HandleHistoryDownload(i, f)
    \/ Tick
    \/ StartRecording
    \/ \E q \in mediaRequests : GetUserMediaReject(q)
    \/ \E q \in mediaRequests, o \in RecorderOutcomes : GetUserMediaResolve(q, o)
    \/ \E t \in BOOLEAN : StopRecording(t)
    \/ \E r \in DOMAIN recorders : RecorderOnStop(r)

Spec == Init /\ [][Next]_vars

\* Playback scenario: one file, exports into history, every play and stop
\* action, the ended events.
InitPlayback ==
    InitApp /\ CodecIdle /\ limits = Limits(PlaybackLoads, PlaybackExports, 0, PlaybackPreviews,
                               PlaybackSources, 0, 1)

NextPlayback ==
    \/ HandleFileChange(Name("song", ".wav"))
    \/ \E d \in decodes : DecodeResolve(d)
    \/ ToggleOriginalPlayback
    \/ ToggleProcessedPlayback
    \/ \E t \in {"before", "after"} : TogglePreviewPlayback(t)
    \/ \E i \in 1..Len(history) : HandleHistoryPlay(i)
    \/ \E i \in 1..Len(history) : HandleHistoryLoad(i)
    \/ \E s \in 1..Len(sources) : SourceFinish(s)
    \/ \E s \in 1..Len(sources) : OnEnded(s)
    \/ \E t \in BOOLEAN : PreviewEffect(t)
    \/ \E p \in previews : PreviewResolve(p)
    \/ HandleDownload("wav")
    \/ \E e \in exports : RenderResolve(e, "ok")

SpecPlayback == InitPlayback /\ [][NextPlayback]_vars

\* History scenario: one file, exports that succeed or fail, loads from
\* history.
InitHistory ==
    InitApp /\ CodecIdle /\ limits = Limits(HistoryLoads, HistoryExports, HistoryFailures,
                               0, 0, 0, 1)

NextHistory ==
    \/ \E f \in Files : HandleFileChange(f)
    \/ \E d \in decodes : DecodeResolve(d)
    \/ \E d \in decodes : DecodeReject(d)
    \/ PreviewEffect(TRUE)
    \/ \E f \in Formats : HandleDownload(f)
    \/ \E f \in Formats : HandleDownloadThrows(f)
    \/ \E e \in exports, o \in EncodeOutcomes : RenderResolve(e, o)
    \/ \E e \in exports : RenderReject(e)

SpecHistory == InitHistory /\ [][NextHistory]_vars

\* Live-graph scenario: one file, every parameter control and its effect,
\* one processed playback.
InitGraph ==
    InitApp /\ CodecIdle /\ limits = Limits(GraphLoads, 0, 0, 0, GraphSources, 0, 1)

NextGraph ==
    \/ HandleFileChange(Name("song", ".wav"))
    \/ \E d \in decodes : DecodeResolve(d)
    \/ \E v \in DelayInputs : SetDelayTime(v)
    \/ \E v \in FeedbackInputs : SetFeedback(v)
    \/ \E b \in BOOLEAN : SetIsClarityOn(b)
    \/ \E v \in BoostInputs : SetVoiceBoost(v)
    \/ \E v \in ClarityInputs : SetClarity(v)
    \/ DelayTimeEffect
    \/ FeedbackEffect
    \/ NoiseReductionEffect
    \/ VoiceBoostEffect
    \/ ClarityEffect
    \/ PreviewEffect(TRUE)
    \/ ToggleProcessedPlayback
    \/ \E s \in 1..Len(sources) : SourceFinish(s)
    \/ \E s \in 1..Len(sources) : OnEnded(s)

SpecGraph == InitGraph /\ [][NextGraph]_vars

\* Offline scenario: the parameters are chosen with every control, then the
\* file is exported; the controls are left alone once an export has begun.
InitOffline ==
    InitApp /\ CodecIdle /\ limits = Limits(OfflineLoads, OfflineExports, 0, 0, 0, 0, 1)

NextOffline ==
    \/ HandleFileChange(Name("song", ".wav"))
    \/ \E d \in decodes : DecodeResolve(d)
    \/ \E v \in DelayInputs : exportsStarted = 0 /\ SetDelayTime(v)
    \/ \E v \in FeedbackInputs : exportsStarted = 0 /\ SetFeedback(v)
    \/ \E b \in BOOLEAN : exportsStarted = 0 /\ SetIsClarityOn(b)
    \/ \E v \in BoostInputs : exportsStarted = 0 /\ SetVoiceBoost(v)
    \/ \E v \in ClarityInputs : exportsStarted = 0 /\ SetClarity(v)
    \/ DelayTimeEffect
    \/ FeedbackEffect
    \/ NoiseReductionEffect
    \/ VoiceBoostEffect
    \/ ClarityEffect
    \/ PreviewEffect(TRUE)
    \/ HandleDownload("wav")
    \/ \E e \in exports : RenderResolve(e, "ok")

SpecOffline == InitOffline /\ [][NextOffline]_vars

\* Session scenario: loads, direct and from a recording, with the delay and
\* noise-reduction controls and their effects.
InitSession ==
    InitApp /\ CodecIdle /\ limits = Limits(SessionLoads, 0, 0, 0, 0, SessionRecordings, 1)

NextSession ==
    \/ HandleFileChange(Name("song", ".wav"))
    \/ \E d \in decodes : DecodeResolve(d)
    \/ \E d \in decodes : DecodeReject(d)
    \/ \E v \in DelayInputs : SetDelayTime(v)
    \/ \E b \in BOOLEAN : SetIsClarityOn(b)
    \/ DelayTimeEffect
    \/ NoiseReductionEffect
    \/ PreviewEffect(TRUE)
    \/ StartRecording
    \/ \E q \in mediaRequests : GetUserMediaResolve(q, "ok")
    \/ StopRecording(FALSE)
    \/ \E r \in DOMAIN recorders : RecorderOnStop(r)

SpecSession == InitSession /\ [][NextSession]_vars

(* ------------------------------ history -------------------------------- *)
\* C2: the history list never holds more than 10 entries, whatever the
\* number and order of successful and failed exports.
C2_HistoryAtMostTen == Len(history) <= HistoryCap

\* An eleventh export has succeeded and the list is full.
C2_Witness ==
    /\ Len(history) = HistoryCap
    /\ exportsStarted - exportsFailed > HistoryCap
    /\ exports = {}

\* A step in which a suspended export completes without a failure.
ExportSucceeds(e) ==
    /\ e \in exports
    /\ exports' = exports \ {e}
    /\ exportsFailed' = exportsFailed

\* A step in which an export fails: in handleDownload before its await, on
\* rejection of the render, or in one of the encoders.
ExportFails == exportsFailed' = exportsFailed + 1

\* C3: a successful export puts the new Render Result at position 0 and
\* keeps the previous entries behind it in their order; at 10 entries
\* exactly the previously last entry goes.
C3_InsertNewestFirst ==
    [][\A e \in exports : ExportSucceeds(e) =>
         /\ Len(history') = Min(Len(history) + 1, HistoryCap)
         /\ history'[1].audioBuffer.origin = "export"
         /\ history'[1].audioBuffer.seq = e.seq
         /\ history'[1].audioBuffer.input = e.input
         /\ \A i \in 1..Len(history) :
               IF i < HistoryCap
               THEN history'[i + 1] = history[i]
               ELSE \A j \in 1..Len(history') : history'[j] # history[i]]_vars

\* The eleventh export was stored: the first one is gone, the second one
\* is now the oldest entry.
C3_Witness ==
    /\ Len(history) = HistoryCap
    /\ history[1].audioBuffer.seq = HistoryCap + 1
    /\ history[HistoryCap].audioBuffer.seq = 2

\* Every entry of history has all its fields, the blobs being encodings of
\* the entry's own buffer.
HistoryComplete(h) ==
    \A i \in 1..Len(h) :
        /\ h[i].audioBuffer # Null
        /\ h[i].audioBuffer.origin = "export"
        /\ h[i].wavBlob = WavBlob(h[i].audioBuffer)
        /\ h[i].mp3Blob = Mp3Blob(h[i].audioBuffer)

\* C10: an export that fails at any step leaves history and the current
\* audioBuffer as they were, and history never holds a partial result.
C10_FailedExportStoresNothing ==
    [][/\ ExportFails => UNCHANGED <<history, audioBuffer>>
       /\ HistoryComplete(history')]_vars

\* An export has failed while history held an entry and a buffer was loaded.
C10_Witness ==
    /\ exportsFailed > 0
    /\ exports = {}
    /\ Len(history) > 0
    /\ audioBuffer # Null

(* ------------------------------ playback ------------------------------- *)
\* The sources that were started and have neither been stopped nor ended.
Playing == {s \in 1..Len(sources) : sources[s].state = "playing"}

\* C1: at any instant at most one source, over all categories, is started
\* and not yet stopped.
C1_AtMostOnePlaying == Cardinality(Playing) <= 1

(* --------------------------- parameter ranges -------------------------- *)
\* Ready: the live session has its AudioContext.
Ready == audioContextRef # 0

\* Every gain a feedback-gain node holds: the live node and the node of
\* each export graph that is being rendered.
FeedbackGains ==
    (IF feedbackGainNodeRef # Null THEN {feedbackGainNodeRef.gain} ELSE {})
    \cup {e.graph.feedbackGain.gain : e \in exports}

InRange(delay, feedbackGain, boost, clarityFilter) ==
    /\ delay.delayTime \in DelayMin..DelayMax
    /\ delay.delayTime <= delay.maxDelayTime
    /\ feedbackGain.gain \in FeedbackMin..FeedbackMax
    /\ boost.gain \in BoostMin..BoostMax
    /\ clarityFilter.gain \in ClarityMin..ClarityMax

\* C5: every value that reaches an audio node is inside its declared range
\* (delay time 0.01..1.0 and so below the 2.0 s capacity, feedback 0..0.95,
\* voiceBoost 1.0..3.0, clarity 0..12 dB), in the live graph and in every
\* offline export graph.
C5_NodeValuesInRange ==
    /\ Ready => InRange(delayNodeRef, feedbackGainNodeRef, voiceBoostGainNodeRef,
                        clarityFilterNodeRef)
    /\ \A e \in exports :
           InRange(e.graph.delay, e.graph.feedbackGain, e.graph.boost,
                   e.graph.clarityFilter)

\* Every control was moved to an end of its range other than its initial
\* position, the live nodes took the values, and an export graph built from
\* them is under render.
C5_Witness ==
    /\ Ready
    /\ delayNodeRef.delayTime = DelayMin
    /\ feedbackGainNodeRef.gain = FeedbackMin
    /\ voiceBoostGainNodeRef.gain = BoostMax
    /\ clarityFilterNodeRef.gain = ClarityMax
    /\ \E e \in exports :
           /\ e.graph.delay.delayTime = DelayMin
           /\ e.graph.feedbackGain.gain = FeedbackMin
           /\ e.graph.boost.gain = BoostMax
           /\ e.graph.clarityFilter.gain = ClarityMax

(* ----------------------------- live session ---------------------------- *)
\* The six persistent nodes exist.
PersistentNodesExist ==
    /\ delayNodeRef # Null /\ feedbackGainNodeRef # Null
    /\ noiseReductionFilterRef # Null /\ masterProcessedGainRef # Null
    /\ voiceBoostGainNodeRef # Null /\ clarityFilterNodeRef # Null

\* C6: the live graph is constructed at most once: the first
\* setupAudioContext call creates the context, the six persistent nodes and
\* their fixed connections; a later loadFile, direct or from a recorder's
\* onstop, creates nothing; a Ready session stays Ready.
C6_GraphBuiltOnce ==
    [][/\ contexts' <= 1
       /\ (~Ready /\ loads' # loads) =>
              /\ Ready' /\ contexts' = 1
              /\ PersistentNodesExist'
              /\ LiveEdges \subseteq connections'
       /\ Ready =>
              /\ audioContextRef' = audioContextRef
              /\ contexts' = contexts
              /\ PersistentNodesExist'
              /\ LiveEdges \subseteq connections'
       /\ (Ready /\ loads' # loads) => UNCHANGED <<liveGraph, connections>>]_vars

\* A second load, made by a recorder's onstop, ran in a Ready session.
C6_Witness ==
    /\ Ready /\ contexts = 1
    /\ loads >= 2
    /\ fileName = RecordingName
    /\ \E r \in DOMAIN recorders : recorders[r].state = "inactive"

\* The parameter effects.
ParamEffects == {"delayTime", "feedback", "isClarityOn", "voiceBoost", "clarity"}

\* A step in which the named effect runs.
EffectRan(name) == name \in pendingEffects /\ name \notin pendingEffects'

\* A step of a parameter change: a control sets its state, or the effect of
\* one pushes the value to its node.
ParameterChange == params' # params \/ \E n \in ParamEffects : EffectRan(n)

\* C7: while Ready, a change of delayTime, feedback, the noise-reduction
\* flag, voiceBoost or clarity changes only the value or mode of the
\* corresponding live node; the persistent nodes, the connections and the
\* playback sources are left as they are.
C7_ParamChangeInPlace ==
    [][(Ready /\ ParameterChange) =>
         /\ UNCHANGED <<audioContextRef, contexts, connections, sources,
                        sourceRefs, transientNodeRefs, playbackState,
                        masterProcessedGainRef>>
         /\ PersistentNodesExist'
         /\ delayNodeRef' # delayNodeRef =>
                /\ EffectRan("delayTime")
                /\ delayNodeRef' = [delayNodeRef EXCEPT !.delayTime = delayTime]
         /\ feedbackGainNodeRef' # feedbackGainNodeRef =>
                /\ EffectRan("feedback")
                /\ feedbackGainNodeRef' = GainNode(feedback)
         /\ noiseReductionFilterRef' # noiseReductionFilterRef =>
                /\ EffectRan("isClarityOn")
                /\ noiseReductionFilterRef'.type =
                       IF isClarityOn THEN "lowpass" ELSE "allpass"
         /\ voiceBoostGainNodeRef' # voiceBoostGainNodeRef =>
                /\ EffectRan("voiceBoost")
                /\ voiceBoostGainNodeRef' = GainNode(voiceBoost)
         /\ clarityFilterNodeRef' # clarityFilterNodeRef =>
                /\ EffectRan("clarity")
                /\ clarityFilterNodeRef' = PeakingFilter(clarity)]_vars

\* Noise reduction was switched on during a processed playback and its
\* effect has set the live filter to lowpass; the source still plays through
\* its dry and wet connections.
C7_Witness ==
    /\ Ready
    /\ pendingEffects = {"preview"}
    /\ noiseReductionFilterRef.type = "lowpass"
    /\ \E s \in Playing :
           /\ sources[s].kind = "processed"
           /\ <<DryNode(s), MasterNode>> \in connections
           /\ <<WetNode(s), DelayNode>> \in connections

\* C8: whenever the session is Ready and no parameter effect is pending, the
\* live delay, feedback-gain, voice-boost and clarity nodes hold the current
\* delayTime, feedback, voiceBoost and clarity, also when the session became
\* Ready through a recorder's onstop.
C8_LiveValuesCurrent ==
    (Ready /\ pendingEffects \cap ParamEffects = {}) =>
        /\ delayNodeRef.delayTime = delayTime
        /\ feedbackGainNodeRef.gain = feedback
        /\ voiceBoostGainNodeRef.gain = voiceBoost
        /\ clarityFilterNodeRef.gain = clarity

\* C9: whenever the session is Ready and no parameter effect is pending, the
\* live noise filter is lowpass (5000 Hz, Q 1) if and only if noise
\* reduction is enabled and allpass if and only if it is disabled.
C9_NoiseModeCurrent ==
    (Ready /\ pendingEffects \cap ParamEffects = {}) =>
        /\ noiseReductionFilterRef.type = (IF isClarityOn THEN "lowpass" ELSE "allpass")
        /\ isClarityOn => /\ noiseReductionFilterRef.frequency = LowpassFrequency
                          /\ noiseReductionFilterRef.Q = LowpassQ

(* --------------------------- offline renders --------------------------- *)
\* Render scenario: one file, the voice-boost control, the delay control
\* moved while an export is suspended, previews and an export that complete
\* in any order, a processed playback started before the export.
InitRender ==
    InitApp /\ CodecIdle /\ limits = Limits(1, RenderExports, 0, RenderPreviews,
                                            RenderSources, 0, 1)

NextRender ==
    \/ HandleFileChange(Name("song", ".wav"))
    \/ \E d \in decodes : DecodeResolve(d)
    \/ \E v \in DelayInputs : exports # {} /\ SetDelayTime(v)
    \/ \E v \in BoostInputs : SetVoiceBoost(v)
    \/ DelayTimeEffect
    \/ VoiceBoostEffect
    \/ \E t \in BOOLEAN : PreviewEffect(t)
    \/ \E p \in previews : PreviewResolve(p)
    \/ \E p \in previews : PreviewReject(p)
    \/ HandleDownload("wav")
    \/ \E e \in exports : RenderResolve(e, "ok")
    \/ exportsStarted = 0 /\ ToggleProcessedPlayback
    \/ \E s \in 1..Len(sources) : SourceFinish(s)
    \/ \E s \in 1..Len(sources) : OnEnded(s)

SpecRender == InitRender /\ [][NextRender]_vars

\* A step in which a suspended preview render completes and its buffer is
\* stored.
PreviewCompletes(p) ==
    /\ p \in previews
    /\ previews' = previews \ {p}
    /\ processedVisBuffer' # processedVisBuffer

\* Buffer b is what a render of input through a graph with these node
\* values yields.
ExportProduced(b, input, g) ==
    /\ b.input = input
    /\ b.fx.delayTime = g.delay.delayTime
    /\ b.fx.feedback = g.feedbackGain.gain
    /\ b.fx.voiceBoost = g.boost.gain
    /\ b.fx.clarity = g.clarityFilter.gain
    /\ b.fx.noise = g.noiseReduction.type

PreviewProduced(b, input, g) ==
    /\ b.input = input
    /\ b.fx.voiceBoost = g.boost.gain
    /\ b.fx.clarity = g.clarityFilter.gain
    /\ b.fx.noise = g.noiseReduction.type

\* C11: renders in flight at the same time do not influence each other:
\* the buffer each yields is determined by the audioBuffer and parameter
\* values captured when it was started, whatever the order of completion
\* and whatever changes while it is suspended; a render in flight is never
\* altered, and the completion of one leaves the others as they are.
C11_RendersIsolated ==
    [][/\ \A e \in exports' : e \in exports \/ e.seq = exportsStarted'
       /\ \A p \in previews' : p \in previews \/ p.seq = previewsStarted'
       /\ \A e \in exports : ExportSucceeds(e) =>
              /\ ExportProduced(history'[1].audioBuffer, e.input, e.graph)
              /\ UNCHANGED <<previews, processedVisBuffer>>
       /\ \A p \in previews : PreviewCompletes(p) =>
              /\ PreviewProduced(processedVisBuffer', p.input, p.graph)
              /\ UNCHANGED <<exports, history>>]_vars

\* An export and a preview of the same buffer captured different voiceBoost
\* values and both completed, and the delay control was moved after the
\* export had captured its value.
C11_Witness ==
    /\ Len(history) > 0 /\ processedVisBuffer # Null
    /\ processedVisBuffer.input = history[1].audioBuffer.input
    /\ processedVisBuffer.fx.voiceBoost # history[1].audioBuffer.fx.voiceBoost
    /\ history[1].audioBuffer.fx.delayTime # delayTime

\* A step of an offline render: one is started, or one completes or fails.
RenderStep ==
    \/ exports' # exports \/ exportsStarted' # exportsStarted
    \/ previews' # previews \/ previewsStarted' # previewsStarted
    \/ EffectRan("preview")

\* C12: starting, running and completing an offline render, export or
\* preview, leaves the live graph unchanged: node values, filter mode,
\* connections, the refs to the playback sources, the sources themselves
\* and the four playback flags.
C12_RenderLeavesLiveGraph ==
    [][RenderStep =>
         UNCHANGED <<liveGraph, connections, sourceRefs, transientNodeRefs,
                     sources, playbackState>>]_vars

\* A processed playback is running while an export and a preview render
\* are in flight.
C12_Witness ==
    /\ isPlayingProcessed
    /\ \E s \in Playing : sources[s].kind = "processed" /\ processedSourceRef = s
    /\ exports # {} /\ previews # {}

(* ------------------------------ history -------------------------------- *)
\* The render pass a buffer or a blob comes from.
RenderPass(x) == <<x.origin, x.seq>>

\* C13: in every entry of history the audioBuffer, the wavBlob and the
\* mp3Blob come from one and the same offline render pass.
C13_OneRenderPassPerEntry ==
    \A i \in 1..Len(history) :
        /\ history[i].audioBuffer.origin = "export"
        /\ RenderPass(history[i].wavBlob) = RenderPass(history[i].audioBuffer)
        /\ RenderPass(history[i].mp3Blob) = RenderPass(history[i].audioBuffer)
        /\ history[i].wavBlob.type = "audio/wav"
        /\ history[i].mp3Blob.type = "audio/mpeg"

\* History holds the results of several render passes, an export having
\* failed in between.
C13_Witness ==
    /\ Len(history) >= 3
    /\ exportsFailed > 0
    /\ \A i, j \in 1..Len(history) :
           i # j => RenderPass(history[i].audioBuffer) # RenderPass(history[j].audioBuffer)
    /\ \E i \in 2..Len(history) :
           history[i].audioBuffer.seq + 1 < history[i - 1].audioBuffer.seq

\* Archive scenario: a file is loaded and exported into history, entries
\* being loaded back and downloaded in between; once the exports are over
\* entries are played, noise reduction is switched and recordings are made,
\* one at a time.
InitArchive ==
    InitApp /\ CodecIdle /\ limits = Limits(ArchiveLoads, ArchiveExports, 0, 0,
                                            ArchiveSources, ArchiveLoads - 1, 1)

\* Every export of the scenario has been made and has completed.
ExportsDone == exportsStarted = limits.exports /\ exports = {}

NextArchive ==
    \/ loads = 0 /\ HandleFileChange(Name("song", ".wav"))
    \/ \E d \in decodes : DecodeResolve(d)
    \/ PreviewEffect(TRUE)
    \/ HandleDownload("wav")
    \/ \E e \in exports : RenderResolve(e, "ok")
    \/ \E i \in 1..Len(history) : HandleHistoryLoad(i)
    \/ \E i \in 1..Len(history) : ExportsDone /\ HandleHistoryPlay(i)
    \/ \E i \in 1..Len(history) : HandleHistoryDownload(i, "mp3")
    \/ \E s \in 1..Len(sources) : SourceFinish(s)
    \/ \E s \in 1..Len(sources) : OnEnded(s)
    \/ \E b \in BOOLEAN : ExportsDone /\ SetIsClarityOn(b)
    \/ NoiseReductionEffect
    \/ ExportsDone /\ mediaRequests = {} /\ StartRecording
    \/ \E q \in mediaRequests : GetUserMediaResolve(q, "ok")
    \/ StopRecording(FALSE)
    \/ \E r \in DOMAIN recorders : RecorderOnStop(r)

SpecArchive == InitArchive /\ [][NextArchive]_vars

\* Clock scenario: one file exported repeatedly, in either format, while
\* the millisecond clock advances at its own pace.
InitClock ==
    InitApp /\ CodecIdle /\ limits = Limits(ClockLoads, ClockExports, 0, 0, 0, 0,
                                            ClockTicks)

NextClock ==
    \/ HandleFileChange(Name("song", ".wav"))
    \/ \E d \in decodes : DecodeResolve(d)
    \/ PreviewEffect(TRUE)
    \/ \E f \in Formats : HandleDownload(f)
    \/ \E e \in exports : RenderResolve(e, "ok")
    \/ Tick

SpecClock == InitClock /\ [][NextClock]_vars

\* C14: the ids of the entries of history are pairwise distinct and
\* strictly decrease from the newest position to the oldest.
C14_IdsStrictlyDecreasing ==
    \A i \in 1..Len(history) : \A j \in 1..Len(history) :
        i < j => history[i].id > history[j].id

\* C19: history changes only by a successful export, and an entry is never
\* modified after insertion: whatever changes history puts one new entry in
\* front of the previous entries, which stay as they were.
C19_HistoryOnlyGrowsByExport ==
    [][history' # history =>
         /\ \E e \in exports : ExportSucceeds(e)
         /\ Len(history') >= 1
         /\ \A i \in 2..Len(history') : history'[i] = history[i - 1]]_vars

\* An entry was loaded back from history, is being played, and its MP3
\* blob was downloaded from the history panel; the entry is in the list
\* with the blobs of its own export.
C19_Witness ==
    /\ Len(history) > 0
    /\ audioBuffer = history[1].audioBuffer
    /\ fileName = FromHistoryName(history[1].fileName)
    /\ playingHistoryId = history[1].id
    /\ \E s \in Playing : sources[s].kind = "history"
    /\ lastDownload = DownloadOf(history[1], "mp3")
    /\ \E r \in DOMAIN recorders : recorders[r].state = "inactive"

(* ------------------------------ failures ------------------------------- *)
\* A step in which a load ends in the catch block of loadFile.
DecodeFails == loadsFailed' = loadsFailed + 1

\* C15: a load whose decoding fails ends with no buffer loaded and the file
\* name replaced by the failure message; history and the live graph stay
\* as they were, and the next load is accepted.
C15_DecodeFailureResets ==
    /\ [][DecodeFails =>
            /\ audioBuffer' = Null
            /\ fileName' = FailedName
            /\ \E d \in decodes : decodes' = decodes \ {d}
            /\ UNCHANGED <<history, liveGraph, connections>>]_vars
    /\ [](loadsFailed > 0 /\ loads < limits.loads /\ NoEffectPending
             => ENABLED HandleFileChange(Name("song", ".wav")))

\* The first load failed, a recording was loaded after it, and the second
\* load gave the buffer that is loaded now.
C15_Witness ==
    /\ loadsFailed = 1 /\ decodes = {}
    /\ audioBuffer # Null
    /\ audioBuffer.seq = 2
    /\ fileName = RecordingName
    /\ Ready

\* Recording scenario: recordings that are refused, that fail to start, or
\* that run and are stopped and loaded.
InitRecording ==
    InitApp /\ CodecIdle /\ limits = Limits(RecordingLoads, 0, 0, 0, 0,
                                            RecordingAttempts, 1)

NextRecording ==
    \/ StartRecording
    \/ \E q \in mediaRequests : GetUserMediaReject(q)
    \/ \E q \in mediaRequests, o \in RecorderOutcomes : GetUserMediaResolve(q, o)
    \/ \E t \in BOOLEAN : StopRecording(t)
    \/ \E r \in DOMAIN recorders : RecorderOnStop(r)
    \/ \E d \in decodes : DecodeResolve(d)
    \/ \E d \in decodes : DecodeReject(d)
    \/ PreviewEffect(TRUE)

SpecRecording == InitRecording /\ [][NextRecording]_vars

\* C16: after a startRecording that failed at any step isRecording is
\* false: the system shows itself as recording only while the recorder it
\* holds is recording and the recording timer runs.
C16_FailedStartNotRecording ==
    isRecording =>
        /\ mediaRecorderRef # 0
        /\ recorders[mediaRecorderRef].state = "recording"
        /\ timerIntervalRef \in timers

(* ------------------------------ preview -------------------------------- *)
\* Preview scenario: one file, every parameter control and its effect, the
\* preview renders; the controls are moved between renders.
InitPreview ==
    InitApp /\ CodecIdle /\ limits = Limits(PreviewLoads, 0, 0, PreviewRenders,
                                            0, 0, 1)

NextPreview ==
    \/ HandleFileChange(Name("song", ".wav"))
    \/ \E d \in decodes : DecodeResolve(d)
    \/ \E v \in DelayInputs : previews = {} /\ SetDelayTime(v)
    \/ \E v \in FeedbackInputs : previews = {} /\ SetFeedback(v)
    \/ \E b \in BOOLEAN : previews = {} /\ SetIsClarityOn(b)
    \/ \E v \in BoostInputs : previews = {} /\ SetVoiceBoost(v)
    \/ \E v \in ClarityInputs : previews = {} /\ SetClarity(v)
    \/ DelayTimeEffect
    \/ FeedbackEffect
    \/ NoiseReductionEffect
    \/ VoiceBoostEffect
    \/ ClarityEffect
    \/ \E t \in BOOLEAN : PreviewEffect(t)
    \/ \E p \in previews : PreviewResolve(p)

SpecPreview == InitPreview /\ [][NextPreview]_vars

\* The preview effect is scheduled in this step.
PreviewScheduled == "preview" \in pendingEffects' /\ "preview" \notin pendingEffects

\* C17: a change of delayTime or feedback starts no preview render and
\* leaves processedVisBuffer unchanged; the preview effect is scheduled
\* exactly when audioBuffer, voiceBoost, clarity or the noise-reduction flag
\* changes, and a preview render is started only by that effect, with a
\* buffer loaded, from the buffer and parameters of that moment.
C17_PreviewTriggers ==
    [][/\ (delayTime' # delayTime \/ feedback' # feedback
           \/ EffectRan("delayTime") \/ EffectRan("feedback")) =>
              /\ UNCHANGED previewing
              /\ ~PreviewScheduled
       /\ PreviewScheduled <=>
              (audioBuffer' # audioBuffer \/ voiceBoost' # voiceBoost
               \/ clarity' # clarity \/ isClarityOn' # isClarityOn)
       /\ previewsStarted' # previewsStarted =>
              /\ EffectRan("preview")
              /\ audioBuffer # Null
              /\ previews' = previews \cup
                     {[seq |-> previewsStarted', input |-> audioBuffer,
                       graph |-> PreviewGraph]}]_vars

\* With a preview stored, the delay and feedback controls were moved and
\* their effects ran: nothing is pending, no render is in flight, and the
\* stored preview is the one of the current buffer and parameters.
C17_Witness ==
    /\ processedVisBuffer # Null /\ previews = {} /\ pendingEffects = {}
    /\ processedVisBuffer.input = audioBuffer
    /\ processedVisBuffer.seq = 2
    /\ processedVisBuffer.fx.voiceBoost = voiceBoost
    /\ voiceBoost = BoostMax
    /\ delayTime = DelayMax /\ feedback = FeedbackMin
    /\ delayNodeRef.delayTime = DelayMax /\ feedbackGainNodeRef.gain = FeedbackMin

\* C18: every buffer an offline render produced, stored in the history by
\* an export or as processedVisBuffer by a preview, has the channel count,
\* the length in frames and the sample rate of the buffer it was rendered
\* from.
C18_RenderKeepsShape ==
    /\ \A i \in 1..Len(history) :
           history[i].audioBuffer.shape = history[i].audioBuffer.input.shape
    /\ processedVisBuffer # Null =>
           processedVisBuffer.shape = processedVisBuffer.input.shape

\* An export and a preview of the stereo three-frame 44100 Hz file have both
\* completed.
C18_Witness ==
    /\ Len(history) = 1
    /\ history[1].audioBuffer.shape = Shape(2, 3, 44100)
    /\ processedVisBuffer # Null
    /\ processedVisBuffer.shape = Shape(2, 3, 44100)

(* ------------------------------ encoders ------------------------------- *)
\* Everything but the encoders' own state.
app == <<audioBuffer, fileName, history, playbackState, params, sourceRefs,
         transientNodeRefs, liveGraph, connections, sources, recording, loading,
         exporting, previewing, now, pendingEffects, limits>>

\* DataView.setUint16 and DataView.setUint32 store the value modulo 2^16 and
\* modulo 2^32; the latter is put together from its two 16-bit halves.
Uint16(v) == v % 65536
Uint32(v) == Uint16(v) + 65536 * Uint16(v \div 65536)

\* const bitsPerSample = 16; const bytesPerSample = bitsPerSample / 8;
\* const headerSize = 44;
bitsPerSample == 16
bytesPerSample == bitsPerSample \div 8
headerSize == 44

\* Faulty variant of dataSize: the channel count is left out.
dataSizeOfOneChannel(buffer) == buffer.length * bytesPerSample

\* const dataSize = numSamples * numChannels * bytesPerSample;
dataSize(buffer) == buffer.length * buffer.numberOfChannels * bytesPerSample

\* const fileSize = headerSize + dataSize;
fileSize(buffer) == headerSize + dataSize(buffer)

\* The writes of one kind, each with the number of bytes it stores.
WriteString(text) == [bytes |-> Len(text), value |-> text]
SetUint32(v) == [bytes |-> 4, value |-> Uint32(v)]
SetUint16(v) == [bytes |-> 2, value |-> Uint16(v)]

\* The header writes of bufferToWav in program order; each write advances
\* offset by its number of bytes.
WavHeader(buffer) ==
    << WriteString("RIFF"),
       SetUint32(fileSize(buffer) - 8),
       WriteString("WAVE"),
       WriteString("fmt "),
       SetUint32(16),
       SetUint16(1),
       SetUint16(buffer.numberOfChannels),
       SetUint32(buffer.sampleRate),
       SetUint32(buffer.sampleRate * buffer.numberOfChannels * bytesPerSample),
       SetUint16(buffer.numberOfChannels * bytesPerSample),
       SetUint16(bitsPerSample),
       WriteString("data"),
       SetUint32(dataSize(buffer)) >>

\* The offset after the first k writes.
RECURSIVE OffsetAfter(_, _)
OffsetAfter(writes, k) ==
    IF k = 0 THEN 0 ELSE OffsetAfter(writes, k - 1) + writes[k].bytes

\* The value of the write that starts at a byte offset.
FieldAt(writes, offset) ==
    LET k == CHOOSE i \in 1..Len(writes) : OffsetAfter(writes, i - 1) = offset
    IN  writes[k].value

\* Samples are counted in thousandths of full scale: FullScale is the 1 of
\* Math.max(-1, Math.min(1, sample)).
FullScale == 1000

Max(a, b) == IF a > b THEN a ELSE b

\* The conversion of a number, here in thousandths, to a 16-bit integer as
\* DataView.setInt16 and an Int16Array store perform it: the fraction is
\* dropped (toward zero) and the integer is taken modulo 2^16 into
\* -32768..32767.
Truncated(x) == IF x >= 0 THEN x \div FullScale ELSE -((-x) \div FullScale)
ToInt16(x) ==
    LET u == Uint16(Truncated(x)) IN IF u >= 32768 THEN u - 65536 ELSE u

\* Faulty variant of Clamp: the sample is scaled as it is.
Unclamped(sample) == sample

\* Math.max(-1, Math.min(1, sample))
Clamp(sample) == Max(-FullScale, Min(FullScale, sample))

\* bufferToWav: const intSample = sample < 0 ? sample * 32768 : sample * 32767,
\* after the clamp.
intSample(sample) ==
    LET clamped == Clamp(sample)
    IN  IF clamped < 0 THEN clamped * 32768 ELSE clamped * 32767

\* Faulty variant of SetInt16: the bytes are stored high byte first.
SetInt16BigEndian(offset, x) ==
    [offset |-> offset, low |-> Uint16(ToInt16(x)) \div 256,
     high |-> Uint16(ToInt16(x)) % 256]

\* view.setInt16(offset, intSample, true): the low byte at offset, the high
\* byte at offset + 1.
SetInt16(offset, x) ==
    [offset |-> offset, low |-> Uint16(ToInt16(x)) % 256,
     high |-> Uint16(ToInt16(x)) \div 256]

\* The 16-bit integer a little-endian reader finds in a write.
Int16Of(write) ==
    LET u == write.low + 256 * write.high
    IN  IF u >= 32768 THEN u - 65536 ELSE u

\* Faulty variant of ConvertSample: both signs are scaled by 0x7FFF.
ConvertSampleSymmetric(sample) == ToInt16(Clamp(sample) * 32767)

\* One value of convertTo16Bit in bufferToMp3:
\* const s = Math.max(-1, Math.min(1, float32Array[i]));
\* int16Array[i] = s < 0 ? s * 0x8000 : s * 0x7FFF
ConvertSample(sample) ==
    LET s == Clamp(sample)
    IN  ToInt16(IF s < 0 THEN s * 32768 ELSE s * 32767)

\* Sample values below, at, inside and above full scale, in a fixed order.
SampleWave == <<-1500, -1000, -999, -1, 0, 1, 999, 1000, 1500>>

\* The wave started k samples later.
Rotate(wave, k) == [x \in 1..Len(wave) |-> wave[((x - 1 + k) % Len(wave)) + 1]]

Waves == { Rotate(SampleWave, k) : k \in 0..(Len(SampleWave) - 1) }

\* buffer.getChannelData(ch)[x]: the channel repeats its wave.
ChannelData(ch, x) == channelData[ch + 1][(x % Len(channelData[ch + 1])) + 1]

\* convertTo16Bit(buffer.getChannelData(ch))
ConvertTo16Bit(ch, length) ==
    [x \in 1..length |-> ConvertSample(ChannelData(ch, x - 1))]

\* The buffers given to the encoder: up to WavMaxChannels channels, up to
\* WavMaxFrames frames or the thousand frames of the worked example, the
\* usual sample rates.
WavInputs ==
    { Shape(c, n, r) : c \in 1..WavMaxChannels,
                       n \in (0..WavMaxFrames) \cup {1000},
                       r \in {8000, 44100, 48000, 96000} }

\* bufferToWav up to the sample loop: the ArrayBuffer is allocated and the
\* header is written.
BufferToWavHeader ==
    /\ codecInput # Null /\ codecOutput = Null
    /\ codecOutput' =
           [byteLength |-> fileSize(codecInput),
            header |-> WavHeader(codecInput),
            offset |-> OffsetAfter(WavHeader(codecInput), Len(WavHeader(codecInput))),
            writes |-> <<>>, i |-> 0, j |-> 0, blob |-> Null]
    /\ UNCHANGED <<app, codecInput, channelData, mp3Output>>

\* One pass of the inner loop: setInt16 at offset, offset += 2.
BufferToWavSample ==
    /\ codecOutput # Null /\ codecOutput.blob = Null
    /\ codecOutput.i < codecInput.length
    /\ codecOutput.offset + 2 <= codecOutput.byteLength
    /\ LET last == codecOutput.j + 1 = codecInput.numberOfChannels
       IN  codecOutput' =
               [codecOutput EXCEPT !.writes =
                                       Append(@, SetInt16(codecOutput.offset,
                                           intSample(ChannelData(codecOutput.j,
                                                                 codecOutput.i)))),
                                   !.offset = @ + 2,
                                   !.j = IF last THEN 0 ELSE @ + 1,
                                   !.i = IF last THEN @ + 1 ELSE @]
    /\ UNCHANGED <<app, codecInput, channelData, mp3Output>>

\* return new Blob([view], { type: 'audio/wav' })
BufferToWavReturn ==
    /\ codecOutput # Null /\ codecOutput.blob = Null
    /\ codecOutput.i >= codecInput.length
    /\ codecOutput' =
           [codecOutput EXCEPT !.blob = [type |-> "audio/wav",
                                         size |-> codecOutput.byteLength]]
    /\ UNCHANGED <<app, codecInput, channelData, mp3Output>>

\* Encoder scenario: bufferToWav applied to one buffer.
InitWav ==
    /\ InitApp /\ limits = Limits(0, 0, 0, 0, 0, 0, 1)
    /\ codecInput \in WavInputs
    /\ channelData = [ch \in 1..codecInput.numberOfChannels |->
                          Rotate(SampleWave, ch)]
    /\ codecOutput = Null /\ mp3Output = Null

NextWav ==
    \/ BufferToWavHeader
    \/ BufferToWavSample
    \/ BufferToWavReturn

SpecWav == InitWav /\ [][NextWav]_vars

\* C20: for a buffer of c channels, n frames and sample rate r bufferToWav
\* produces 44 + n*c*2 bytes, a 44-byte header whose RIFF chunk size is
\* 36 + n*c*2, format tag 1, channel count c, sample rate r, byte rate
\* r*c*2, block align c*2, bits per sample 16 and data chunk size n*c*2; the
\* sample loop ends exactly at the end of the file.
C20_WavHeaderFields ==
    codecOutput # Null =>
        LET c == codecInput.numberOfChannels
            n == codecInput.length
            r == codecInput.sampleRate
            h == codecOutput.header
        IN  /\ codecOutput.byteLength = 44 + n * c * 2
            /\ OffsetAfter(h, Len(h)) = 44
            /\ FieldAt(h, 4) = 36 + n * c * 2
            /\ FieldAt(h, 20) = 1
            /\ FieldAt(h, 22) = c
            /\ FieldAt(h, 24) = r
            /\ FieldAt(h, 28) = r * c * 2
            /\ FieldAt(h, 32) = c * 2
            /\ FieldAt(h, 34) = 16
            /\ FieldAt(h, 40) = n * c * 2
            /\ codecOutput.blob # Null =>
                   /\ codecOutput.blob.size = 44 + n * c * 2
                   /\ codecOutput.offset = codecOutput.blob.size

\* The worked example: two channels, 44100 Hz, a thousand frames.
C20_Witness ==
    /\ codecInput = Shape(2, 1000, 44100)
    /\ codecOutput # Null /\ codecOutput.blob # Null
    /\ codecOutput.blob.size = 4044
    /\ FieldAt(codecOutput.header, 28) = 176400
    /\ FieldAt(codecOutput.header, 40) = 4000

\* bufferToMp3 up to the chunk loop: both channels are converted to 16-bit
\* integers, the right one being the left one for a mono buffer.
BufferToMp3Convert ==
    /\ codecInput # Null /\ mp3Output = Null
    /\ mp3Output' =
           [samplesLeft |-> ConvertTo16Bit(0, codecInput.length),
            samplesRight |-> ConvertTo16Bit(
                IF codecInput.numberOfChannels > 1 THEN 1 ELSE 0, codecInput.length),
            i |-> 0, calls |-> <<>>, mp3Data |-> <<>>, blob |-> Null]
    /\ UNCHANGED <<app, codecInput, channelData, codecOutput>>

\* const bufferSize = 1152
bufferSize == 1152

\* typedArray.subarray(begin, end): the view of the named array from begin
\* up to end, the end being cut at the array's length.
Subarray(name, array, begin, end) ==
    [of |-> name, begin |-> Min(begin, Len(array)), end |-> Min(end, Len(array))]

\* The numbers of bytes a call of the encoder may give back, possibly none,
\* and the bytes themselves, marked with the number of the call.
EncoderSizes == 0..2
EncoderOutput(call, size) == [x \in 1..size |-> call]

\* mp3Data after: if (mp3buf.length > 0) mp3Data.push(new Int8Array(mp3buf))
Pushed(mp3Data, mp3buf) ==
    IF Len(mp3buf) > 0 THEN Append(mp3Data, mp3buf) ELSE mp3Data

\* Faulty variant of BufferToMp3Chunk: each chunk reaches one sample into
\* the next one.
BufferToMp3ChunkOverlapping(size) ==
    /\ mp3Output # Null /\ mp3Output.blob = Null
    /\ mp3Output.i < Len(mp3Output.samplesLeft)
    /\ LET mp3buf == EncoderOutput(Len(mp3Output.calls) + 1, size)
       IN  mp3Output' =
           [mp3Output EXCEPT
                !.calls = Append(@,
                    [op |-> "encodeBuffer",
                     left |-> Subarray("samplesLeft", mp3Output.samplesLeft,
                                       mp3Output.i, mp3Output.i + bufferSize + 1),
                     right |-> Subarray("samplesRight", mp3Output.samplesRight,
                                        mp3Output.i, mp3Output.i + bufferSize + 1),
                     out |-> mp3buf]),
                !.mp3Data = Pushed(@, mp3buf),
                !.i = @ + bufferSize]
    /\ UNCHANGED <<app, codecInput, channelData, codecOutput>>

\* One pass of the chunk loop: the two chunks are cut, given to
\* encoder.encodeBuffer, and what it gives back is kept if it is not empty.
BufferToMp3Chunk(size) ==
    /\ mp3Output # Null /\ mp3Output.blob = Null
    /\ mp3Output.i < Len(mp3Output.samplesLeft)
    /\ LET mp3buf == EncoderOutput(Len(mp3Output.calls) + 1, size)
       IN  mp3Output' =
           [mp3Output EXCEPT
                !.calls = Append(@,
                    [op |-> "encodeBuffer",
                     left |-> Subarray("samplesLeft", mp3Output.samplesLeft,
                                       mp3Output.i, mp3Output.i + bufferSize),
                     right |-> Subarray("samplesRight", mp3Output.samplesRight,
                                        mp3Output.i, mp3Output.i + bufferSize),
                     out |-> mp3buf]),
                !.mp3Data = Pushed(@, mp3buf),
                !.i = @ + bufferSize]
    /\ UNCHANGED <<app, codecInput, channelData, codecOutput>>

\* Faulty variant of BufferToMp3Flush: what the flush gives back is not
\* kept.
BufferToMp3FlushDropped(size) ==
    /\ mp3Output # Null /\ mp3Output.blob = Null
    /\ mp3Output.i >= Len(mp3Output.samplesLeft)
    /\ LET mp3buf == EncoderOutput(Len(mp3Output.calls) + 1, size)
       IN  mp3Output' =
           [mp3Output EXCEPT
                !.calls = Append(@, [op |-> "flush", out |-> mp3buf]),
                !.blob = [type |-> "audio/mpeg", parts |-> mp3Output.mp3Data]]
    /\ UNCHANGED <<app, codecInput, channelData, codecOutput>>

\* After the loop: encoder.flush(), its output kept if it is not empty,
\* return new Blob(mp3Data, { type: 'audio/mpeg' }).
BufferToMp3Flush(size) ==
    /\ mp3Output # Null /\ mp3Output.blob = Null
    /\ mp3Output.i >= Len(mp3Output.samplesLeft)
    /\ LET mp3buf == EncoderOutput(Len(mp3Output.calls) + 1, size)
       IN  mp3Output' =
           [mp3Output EXCEPT
                !.calls = Append(@, [op |-> "flush", out |-> mp3buf]),
                !.mp3Data = Pushed(@, mp3buf),
                !.blob = [type |-> "audio/mpeg",
                          parts |-> Pushed(mp3Output.mp3Data, mp3buf)]]
    /\ UNCHANGED <<app, codecInput, channelData, codecOutput>>

\* The buffers of the chunk scenario: up to Mp3MaxChannels channels, a
\* length at or next to a whole number of chunks, up to Mp3MaxChunks.
Mp3Inputs ==
    { Shape(c, n, 44100) :
          c \in 1..Mp3MaxChannels,
          n \in { k * bufferSize + d : k \in 0..Mp3MaxChunks, d \in {-1, 0, 1} }
                   \cap Nat }

\* Chunk scenario: bufferToMp3 applied to one buffer.
InitMp3 ==
    /\ InitApp /\ limits = Limits(0, 0, 0, 0, 0, 0, 1)
    /\ codecInput \in Mp3Inputs
    /\ channelData = [ch \in 1..codecInput.numberOfChannels |->
                          Rotate(SampleWave, ch)]
    /\ codecOutput = Null /\ mp3Output = Null

NextMp3 ==
    \/ BufferToMp3Convert
    \/ \E size \in EncoderSizes : BufferToMp3Chunk(size)
    \/ \E size \in EncoderSizes : BufferToMp3Flush(size)

SpecMp3 == InitMp3 /\ [][NextMp3]_vars

\* The buffers of the sample scenario: up to PcmMaxChannels channels and
\* PcmMaxFrames frames.
PcmInputs ==
    { Shape(c, n, 44100) : c \in 1..PcmMaxChannels, n \in 0..PcmMaxFrames }

\* Sample scenario: both encoders applied to one short buffer whose channels
\* start anywhere in the wave.
InitPcm ==
    /\ InitApp /\ limits = Limits(0, 0, 0, 0, 0, 0, 1)
    /\ codecInput \in PcmInputs
    /\ channelData \in [1..codecInput.numberOfChannels -> Waves]
    /\ codecOutput = Null /\ mp3Output = Null

NextPcm ==
    \/ BufferToWavHeader
    \/ BufferToWavSample
    \/ BufferToWavReturn
    \/ BufferToMp3Convert

SpecPcm == InitPcm /\ [][NextPcm]_vars

\* What the conversion has to yield for a sample, in thousandths.
Expected16(sample) ==
    IF sample >= FullScale THEN 32767
    ELSE IF sample <= -FullScale THEN -32768
    ELSE IF sample < 0 THEN -((-sample * 32768) \div FullScale)
    ELSE (sample * 32767) \div FullScale

\* The sample the k-th write of the WAV sample loop takes.
WrittenSample(k) ==
    ChannelData((k - 1) % codecInput.numberOfChannels,
                (k - 1) \div codecInput.numberOfChannels)

\* C21: the float-to-16-bit conversion clamps before scaling: a sample >= 1
\* gives 32767, a sample <= -1 gives -32768, 0 gives 0, a sample in (-1,0)
\* gives s*32768 and one in (0,1) s*32767 truncated toward zero, in the WAV
\* writes and in the encoder input of bufferToMp3 alike, so every value is
\* in -32768..32767 with no wrap-around.
C21_ClampBeforeScale ==
    /\ codecOutput # Null =>
           \A k \in 1..Len(codecOutput.writes) :
               /\ Int16Of(codecOutput.writes[k]) = Expected16(WrittenSample(k))
               /\ Int16Of(codecOutput.writes[k]) \in -32768..32767
    /\ mp3Output # Null =>
           \A x \in 1..Len(mp3Output.samplesLeft) :
               /\ mp3Output.samplesLeft[x] = Expected16(ChannelData(0, x - 1))
               /\ mp3Output.samplesLeft[x] \in -32768..32767

\* Both encoders have converted a channel that holds a sample above full
\* scale, one below it and a fraction on either side of zero.
C21_Witness ==
    /\ codecOutput # Null /\ mp3Output # Null
    /\ codecInput.length = PcmMaxFrames
    /\ Len(codecOutput.writes) = codecInput.length * codecInput.numberOfChannels
    /\ \E k \in 1..Len(codecOutput.writes) :
           WrittenSample(k) > FullScale /\ Int16Of(codecOutput.writes[k]) = 32767
    /\ \E k \in 1..Len(codecOutput.writes) :
           WrittenSample(k) < -FullScale /\ Int16Of(codecOutput.writes[k]) = -32768
    /\ \E x \in 1..Len(mp3Output.samplesLeft) :
           ChannelData(0, x - 1) = -1 /\ mp3Output.samplesLeft[x] = -32

(* ----------------------------- noise filter ---------------------------- *)
\* The noise filter as setupAudioContext leaves it: createBiquadFilter()
\* with its type set to allpass.
OriginalNoiseFilter ==
    NoiseFilter("allpass", BiquadDefaultFrequency, BiquadDefaultQ)

\* C22: on a Ready session, whenever the noise-reduction effect runs with
\* noise reduction off, after any sequence of toggles, the live noise filter
\* is in its original allpass configuration again: the same mode and the
\* same frequency and Q as setupAudioContext gave it.
C22_OffRestoresOriginalFilter ==
    [][(EffectRan("isClarityOn") /\ Ready /\ ~isClarityOn) =>
           noiseReductionFilterRef' = OriginalNoiseFilter]_vars

(* ------------------------------- chunks -------------------------------- *)
\* The encodeBuffer calls made so far, in call order.
EncodeCalls == SelectSeq(mp3Output.calls, LAMBDA call : call.op = "encodeBuffer")

\* C23: the k-th encodeBuffer call gets the samples (k-1)*1152 up to
\* k*1152, cut at the length n of the channel, from samplesLeft and from
\* samplesRight alike: consecutive chunks of 1152 samples that do not
\* overlap, only the last one shorter; when bufferToMp3 returns the chunks
\* cover all n samples and there were ceil(n/1152) calls, none for n = 0.
C23_ChunksCoverSamples ==
    mp3Output # Null =>
        LET n == codecInput.length
        IN  /\ \A k \in 1..Len(EncodeCalls) :
                   /\ EncodeCalls[k].left.of = "samplesLeft"
                   /\ EncodeCalls[k].right.of = "samplesRight"
                   /\ EncodeCalls[k].left.begin = (k - 1) * 1152
                   /\ EncodeCalls[k].left.end = Min(k * 1152, n)
                   /\ EncodeCalls[k].left.begin < EncodeCalls[k].left.end
                   /\ EncodeCalls[k].right.begin = EncodeCalls[k].left.begin
                   /\ EncodeCalls[k].right.end = EncodeCalls[k].left.end
            /\ Len(mp3Output.samplesLeft) = n
            /\ Len(mp3Output.samplesRight) = n
            /\ mp3Output.blob # Null =>
                   /\ Len(EncodeCalls) = (n + 1151) \div 1152
                   /\ n > 0 => EncodeCalls[Len(EncodeCalls)].left.end = n

\* bufferToMp3 returned for a buffer of two chunks and one sample: three
\* calls, the last with one sample.
C23_Witness ==
    /\ mp3Output # Null /\ mp3Output.blob # Null
    /\ codecInput.length = 2 * 1152 + 1
    /\ Len(EncodeCalls) = 3
    /\ EncodeCalls[3].left.end - EncodeCalls[3].left.begin = 1

RECURSIVE Concatenation(_)
\* The parts of a sequence joined in order.
Concatenation(parts) ==
    IF parts = <<>> THEN <<>> ELSE Head(parts) \o Concatenation(Tail(parts))

\* What the encoder gave back, call by call.
EncoderEmitted == [k \in 1..Len(mp3Output.calls) |-> mp3Output.calls[k].out]

\* C24: the encoder is flushed once, as the last call and only after the
\* chunk loop has consumed every sample; the payload of the Blob is what the
\* encodeBuffer calls gave back, in call order, followed by what the flush
\* gave back, the empty outputs left out and nothing dropped, duplicated or
\* reordered.
C24_FlushOnceAtEnd ==
    mp3Output # Null =>
        /\ \A k \in 1..Len(mp3Output.calls) :
               mp3Output.calls[k].op = "flush" =>
                   /\ k = Len(mp3Output.calls)
                   /\ Len(EncodeCalls) = k - 1
                   /\ mp3Output.i >= codecInput.length
                   /\ mp3Output.blob # Null
        /\ mp3Output.mp3Data =
               SelectSeq(EncoderEmitted, LAMBDA mp3buf : Len(mp3buf) > 0)
        /\ mp3Output.blob # Null =>
               /\ Len(mp3Output.calls) > 0
               /\ mp3Output.calls[Len(mp3Output.calls)].op = "flush"
               /\ mp3Output.blob.parts = mp3Output.mp3Data
               /\ Concatenation(mp3Output.blob.parts) = Concatenation(EncoderEmitted)

\* bufferToMp3 returned after two encodeBuffer calls of which the first gave
\* nothing back, and a flush that gave something back.
C24_Witness ==
    /\ mp3Output # Null /\ mp3Output.blob # Null
    /\ Len(mp3Output.calls) = 3
    /\ mp3Output.calls[1].out = <<>>
    /\ mp3Output.calls[2].out # <<>>
    /\ mp3Output.calls[3].op = "flush" /\ mp3Output.calls[3].out # <<>>
    /\ Len(mp3Output.blob.parts) = 2

(* ------------------------------- samples ------------------------------- *)
\* The frame and the channel whose sample is stored at a byte offset of the
\* WAV data.
FrameAt(offset) == ((offset - 44) \div 2) \div codecInput.numberOfChannels
ChannelAt(offset) == ((offset - 44) \div 2) % codecInput.numberOfChannels

\* C27: the 16-bit values bufferToMp3 gives the encoder for the left and
\* the right channel equal, sample by sample, the values bufferToWav writes
\* for channel 0 and channel 1; for a mono buffer the right encoder input
\* equals the left one.
C27_Mp3InputEqualsWavSamples ==
    (codecOutput # Null /\ mp3Output # Null) =>
        /\ \A k \in 1..Len(codecOutput.writes) :
               LET w == codecOutput.writes[k]
               IN  /\ ChannelAt(w.offset) = 0 =>
                          mp3Output.samplesLeft[FrameAt(w.offset) + 1] = Int16Of(w)
                   /\ ChannelAt(w.offset) = 1 =>
                          mp3Output.samplesRight[FrameAt(w.offset) + 1] = Int16Of(w)
        /\ codecInput.numberOfChannels = 1 =>
               mp3Output.samplesRight = mp3Output.samplesLeft

\* Both encoders have converted a stereo buffer whose channels differ and
\* hold a negative fraction.
C27_Witness ==
    /\ codecOutput # Null /\ mp3Output # Null
    /\ codecInput.numberOfChannels = 2 /\ codecInput.length = PcmMaxFrames
    /\ Len(codecOutput.writes) = 2 * codecInput.length
    /\ mp3Output.samplesLeft # mp3Output.samplesRight
    /\ \E x \in 1..codecInput.length : mp3Output.samplesRight[x] = -32735

\* C28: in the WAV payload the sample of frame i and channel j is stored
\* little-endian, low byte first, at byte offset 44 + (i*c + j)*2; the
\* writes are contiguous from offset 44 on, so that each data byte is
\* written once, and the last write ends at the end of the buffer.
C28_SamplesInterleaved ==
    codecOutput # Null =>
        LET c == codecInput.numberOfChannels
            n == codecInput.length
            w == codecOutput.writes
        IN  /\ \A k \in 1..Len(w) : w[k].offset = 44 + (k - 1) * 2
            /\ codecOutput.offset = 44 + Len(w) * 2
            /\ \A i \in 0..(n - 1), j \in 0..(c - 1) :
                   (i * c + j < Len(w)) =>
                       LET x == w[i * c + j + 1]
                           v == Uint16(Expected16(ChannelData(j, i)))
                       IN  /\ x.offset = 44 + (i * c + j) * 2
                           /\ x.low = v % 256
                           /\ x.high = v \div 256
            /\ codecOutput.blob # Null =>
                   /\ Len(w) = n * c
                   /\ 44 + Len(w) * 2 = codecOutput.byteLength

\* bufferToWav returned for a stereo buffer of the longest kind whose two
\* channels differ in every frame and whose bytes differ in some sample.
C28_Witness ==
    /\ codecOutput # Null /\ codecOutput.blob # Null
    /\ codecInput.numberOfChannels = 2 /\ codecInput.length = PcmMaxFrames
    /\ \A i \in 0..(codecInput.length - 1) : ChannelData(0, i) # ChannelData(1, i)
    /\ \E k \in 1..Len(codecOutput.writes) :
           codecOutput.writes[k].low # codecOutput.writes[k].high

(* ------------------------------ topology ------------------------------- *)
\* Topology scenario: one file, the delay and noise-reduction controls moved
\* before the export, exports and processed playbacks.
InitTopology ==
    InitApp /\ CodecIdle /\ limits = Limits(1, TopologyExports, 0, 0,
                                            TopologySources, 0, 1)

NextTopology ==
    \/ HandleFileChange(Name("song", ".wav"))
    \/ \E d \in decodes : DecodeResolve(d)
    \/ \E v \in DelayInputs : exportsStarted = 0 /\ SetDelayTime(v)
    \/ \E b \in BOOLEAN : exportsStarted = 0 /\ SetIsClarityOn(b)
    \/ DelayTimeEffect
    \/ NoiseReductionEffect
    \/ PreviewEffect(TRUE)
    \/ HandleDownload("wav")
    \/ \E e \in exports : RenderResolve(e, "ok")
    \/ ToggleOriginalPlayback
    \/ ToggleProcessedPlayback
    \/ \E s \in 1..Len(sources) : SourceFinish(s)
    \/ \E s \in 1..Len(sources) : OnEnded(s)

SpecTopology == InitTopology /\ [][NextTopology]_vars

RECURSIVE Downstream(_, _)
\* The nodes a signal entering at one of the given nodes reaches.
Downstream(edges, nodes) ==
    LET further == nodes \cup {e[2] : e \in {x \in edges : x[1] \in nodes}}
    IN  IF further = nodes THEN nodes ELSE Downstream(edges, further)

\* The connections a signal from the source passes, the per-playback nodes
\* without their identity.
Topology(edges, source) ==
    {<<Node(e[1][1], 0), Node(e[2][1], 0)>> :
         e \in {x \in edges : x[1] \in Downstream(edges, {source})}}

\* The stages and connections the processing graph is to have.
StatedTopology ==
    {<<Node("source", 0), Node("dry", 0)>>, <<Node("source", 0), Node("wet", 0)>>,
     <<Node("dry", 0), Node("master", 0)>>, <<Node("wet", 0), Node("delay", 0)>>,
     <<Node("delay", 0), Node("feedback", 0)>>,
     <<Node("feedback", 0), Node("delay", 0)>>,
     <<Node("delay", 0), Node("noise", 0)>>, <<Node("noise", 0), Node("master", 0)>>,
     <<Node("master", 0), Node("boost", 0)>>, <<Node("boost", 0), Node("clarity", 0)>>,
     <<Node("clarity", 0), Node("destination", 0)>>}

\* The processed sources that are playing.
PlayingProcessed == {s \in Playing : sources[s].kind = "processed"}

\* A step that delivers the ended event of a processed source.
ProcessedEnded ==
    \E s \in 1..Len(sources) :
        /\ sources[s].kind = "processed"
        /\ sources[s].state = "stopping" /\ sources'[s].state = "ended"

DryWetEdges(edges, s) == {e \in edges : e[1] \in {DryNode(s), WetNode(s)}}

\* C26: the onended callback of a processed playback disconnects the dry
\* and wet gain nodes created for that playback and no others: the nodes of
\* a later processed playback that is still playing stay connected, and
\* once every ended event has been delivered no dry or wet node of a
\* finished playback is connected to the persistent graph.
C26_OnEndedDisconnectsOwnNodes ==
    [][/\ \A s \in 1..Len(sources) :
              (/\ sources[s].kind = "processed"
               /\ sources[s].state = "stopping" /\ sources'[s].state = "ended") =>
                  /\ DryWetEdges(connections', s) = {}
                  /\ \A t \in PlayingProcessed :
                         DryWetEdges(connections', t) = DryWetEdges(connections, t)
       /\ (\A s \in 1..Len(sources') : sources'[s].state # "stopping") =>
              \A s \in 1..Len(sources') :
                  (sources'[s].kind = "processed" /\ sources'[s].state = "ended") =>
                      DryWetEdges(connections', s) = {}]_vars

(* ------------------------- playback indicators ------------------------- *)
\* Indicator scenario: one file, one export into history, one preview, every
\* play and stop action and the ended events.
InitIndicators ==
    InitApp /\ CodecIdle /\ limits = Limits(1, 1, 0, 1, IndicatorSources, 0, 1)

NextIndicators ==
    \/ HandleFileChange(Name("song", ".wav"))
    \/ \E d \in decodes : DecodeResolve(d)
    \/ ToggleOriginalPlayback
    \/ ToggleProcessedPlayback
    \/ \E t \in {"before", "after"} : TogglePreviewPlayback(t)
    \/ \E i \in 1..Len(history) : HandleHistoryPlay(i)
    \/ \E s \in 1..Len(sources) : SourceFinish(s)
    \/ \E s \in 1..Len(sources) : OnEnded(s)
    \/ \E t \in BOOLEAN : PreviewEffect(t)
    \/ \E p \in previews : PreviewResolve(p)
    \/ HandleDownload("wav")
    \/ \E e \in exports : RenderResolve(e, "ok")

SpecIndicators == InitIndicators /\ [][NextIndicators]_vars

\* The number of playback indicators that are set.
IndicatorsSet ==
    (IF isPlayingOriginal THEN 1 ELSE 0) + (IF isPlayingProcessed THEN 1 ELSE 0)
    + (IF playingHistoryId # 0 THEN 1 ELSE 0)
    + (IF playingPreview # "none" THEN 1 ELSE 0)

\* C29: at most one of the four playback indicators is set: isPlayingOriginal,
\* isPlayingProcessed, playingHistoryId, playingPreview.
C29_AtMostOneIndicator == IndicatorsSet <= 1

\* The 'after' preview is indicated while a history source and an original
\* source that were stopped for it still await their ended events.
C29_Witness ==
    /\ playingPreview = "after" /\ IndicatorsSet = 1
    /\ \E s \in 1..Len(sources) :
           sources[s].kind = "history" /\ sources[s].state = "stopping"
    /\ \E s \in 1..Len(sources) :
           sources[s].kind = "original" /\ sources[s].state # "playing"

\* The indicator and the ref of source s say that it is playing.
Indicated(s) ==
    CASE sources[s].kind = "original" -> isPlayingOriginal /\ originalSourceRef = s
      [] sources[s].kind = "processed" -> isPlayingProcessed /\ processedSourceRef = s
      [] sources[s].kind = "history" ->
             playingHistoryId = sources[s].item /\ historySourceRef = s
      [] sources[s].kind = "before" ->
             playingPreview = "before" /\ beforePreviewSourceRef = s
      [] sources[s].kind = "after" ->
             playingPreview = "after" /\ afterPreviewSourceRef = s

\* C30: while a source is started and not yet stopped or ended, the
\* indicator of its category is set, to its item or type where there is
\* one, and the ref of its category holds it: no onended callback of an
\* earlier source clears them.
C30_IndicatorsMatchSources == \A s \in Playing : Indicated(s)

(* -------------------------- overlapping loads -------------------------- *)
\* The load that was requested last, by its number.
LatestLoad == loads

\* C31: once every decode has completed, the current buffer is the one of
\* the most recently requested load: a decoded buffer of an earlier load
\* never stands in its place, and while no decode failed the buffer is not
\* cleared.
C31_LatestLoadWins ==
    (decodes = {} /\ LatestLoad > 0) =>
        /\ audioBuffer # Null => audioBuffer = DecodedBuffer(LatestLoad, fileName)
        /\ loadsFailed = 0 => audioBuffer # Null

(* ------------------------- overlapping previews ------------------------ *)
\* The preview render that was started last, by its number.
LatestPreview == previewsStarted

\* C32: a preview render that completes never replaces the result of a
\* render that was started after it: the buffer it stores takes the place
\* of none or of the result of an earlier render.
C32_OlderPreviewNeverReplacesNewer ==
    [][\A p \in previews : PreviewCompletes(p) =>
           \/ processedVisBuffer = Null
           \/ processedVisBuffer.seq < p.seq]_vars

(* ------------------------ overlapping recordings ----------------------- *)
\* The recorders whose state is 'recording'.
Recording == {r \in DOMAIN recorders : recorders[r].state = "recording"}

\* C33: at most one MediaRecorder is recording and at most one recording
\* timer interval is running at any time, also when startRecording is
\* invoked again while an earlier invocation awaits getUserMedia.
C33_OneRecorderOneTimer ==
    /\ Cardinality(Recording) <= 1
    /\ Cardinality(timers) <= 1

(* --------------------------- rendering format -------------------------- *)
\* Export scenario: two loads, exports in both formats that succeed, fail
\* before the render, in the render or in an encoder.
InitExport ==
    InitApp /\ CodecIdle /\ limits = Limits(ExportLoads, ExportRuns, ExportFailures,
                                            0, 0, 0, 1)

\* An export in flight comes to its end: startRendering resolves or rejects
\* and handleDownload runs to its finally block.
ExportSettles ==
    \E e \in exports :
        \/ \E o \in EncodeOutcomes : RenderResolve(e, o)
        \/ RenderReject(e)

NextExport ==
    \/ \E f \in Files : HandleFileChange(f)
    \/ \E d \in decodes : DecodeResolve(d)
    \/ \E d \in decodes : DecodeReject(d)
    \/ PreviewEffect(TRUE)
    \/ \E f \in Formats : HandleDownload(f)
    \/ \E f \in Formats : HandleDownloadThrows(f)
    \/ \E e \in exports, o \in EncodeOutcomes : RenderResolve(e, o)
    \/ \E e \in exports : RenderReject(e)

\* React runs a pending effect, and every render completes or fails.
SpecExport ==
    /\ InitExport /\ [][NextExport]_vars
    /\ WF_vars(PreviewEffect(TRUE))
    /\ WF_vars(ExportSettles)

\* C34: renderingFormat is non-null exactly while an export is in flight,
\* and then it is the format of that export; an export is started only
\* with a buffer loaded and sets renderingFormat to its format; without a
\* buffer handleDownload starts nothing; every export in flight, whether
\* it succeeds or fails, eventually resets renderingFormat to null.
C34_RenderingFormatWhileExporting ==
    /\ [](/\ renderingFormat # "none" <=> exports # {}
          /\ \A e \in exports : renderingFormat = e.format)
    /\ [][/\ \A e \in exports' \ exports :
                audioBuffer # Null /\ renderingFormat' = e.format
          /\ audioBuffer = Null =>
                exportsStarted' = exportsStarted /\ exports' \subseteq exports
          /\ exports' \subseteq exports =>
                renderingFormat' \in {renderingFormat, "none"}]_vars
    /\ (renderingFormat # "none") ~> (renderingFormat = "none")

\* After one export failed, a second one, to MP3, is in flight.
C34_Witness ==
    /\ renderingFormat = "mp3" /\ exportsStarted = 2 /\ exportsFailed = 1
    /\ \E e \in exports : e.seq = 2 /\ e.format = "mp3"
====
